---------------------------- MODULE Spec2Model ----------------------------
(***************************************************************************)
(* A model of the storage engine core in be/src/olap/storage_engine.cpp:   *)
(* the task executor (execute_task), the compaction scheduler              *)
(* (perform_*_compaction, _find_best_tablet_to_compaction), the garbage    *)
(* collector of retired artifacts (start_delete_unused_index / _rowset)    *)
(* and the per-volume loader (_load_data_dir).                             *)
(*                                                                         *)
(* Each subsystem has its own specification over the shared variables:     *)
(*   SpecTask, SpecCompaction, SpecGC, SpecLoad.                           *)
(***************************************************************************)
EXTENDS Integers, Sequences, FiniteSets, TLC

(***************************************************************************)
(* Bounds of the model.                                                    *)
(***************************************************************************)
\* longest vector get_related_tablets hands back
MaxRelated == 2
\* clock ticks of the compaction scheduler's run
MaxTicks == 1
\* retired segment groups the collector gets to see
MaxArtifacts == 2
\* rowset metas in a volume's store
MaxRowsetMetas == 2
\* times a volume is loaded from its store: the start and the restarts
MaxLoads == 2
\* volumes (store paths) the engine is opened on
MaxVolumes == 3
\* rounds of the disk-health monitor
MaxRounds == 2
\* calls of perform_*_compaction on the tablet
MaxCalls == 3
\* ticks of the clock the calls read
MaxClock == 2
\* times the process ends and starts again during a conversion
MaxRestarts == 2

\* partition ids in one call of clear_transaction_task
MaxPartitionIds == 2

(***************************************************************************)
(* Values.                                                                 *)
(***************************************************************************)
None == "none"

\* a null TabletSharedPtr
NoTablet == << >>

\* TabletInfo values <<tablet_id, schema_hash>> the tasks may name
TabletInfos == { <<3, 2>>, <<7, 1>>, <<9, 1>> }

\* concurrent callers of execute_task
Runs == { "run1", "run2" }

OLAP_SUCCESS == "OLAP_SUCCESS"

\* statuses a task callback may return
TaskStatuses == { OLAP_SUCCESS, "OLAP_ERR_INPUT_PARAMETER_ERROR", "OLAP_ERR_OTHER_ERROR" }

VARIABLES
    \* ---- tablet directory and per-tablet header lock ----
    tablet_map,         \* TabletInfos registered in the tablet directory
    header_lock,        \* TabletInfo -> the run holding its header write-lock, or None
    \* ---- execute_task, per run ----
    pc,                 \* position of the run inside execute_task
    tablet_infos,       \* the run's sorted local vector tablet_infos
    next_info,          \* index of the next entry of tablet_infos to resolve
    related_tablets,    \* the run's local vector related_tablets (locked tablets)
    calls,              \* the task callbacks invoked so far, in order
    call_status,        \* callback -> the status it returned (None: not returned)
    ret,                \* what execute_task returned (None: not returned)
    finish_locks,       \* header locks taken after execute() returned
    task_related,       \* what the run's task answered to the last get_related_tablets
    task_changed,       \* the answer in the second block differs from the first
    \* ---- compaction scheduler ----
    now,                        \* UnixMillis()
    compaction_lock,            \* tablet -> kind -> thread holding the per-kind lock, or None
    last_compaction_failure_time,   \* tablet -> millis, 0: none
    cpc,                \* position of a scheduler thread
    ctype,              \* CompactionType of the thread's current call
    scan_now,           \* the local now of _find_best_tablet_to_compaction
    scan_pos,           \* index of the next tablet of the scan
    best_tablet,        \* the thread's best_tablet (NoTablet: nullptr)
    highest_score,      \* the thread's highest_score
    seen_failure_time,  \* last_compaction_failure_time() as read for the tablet under examination
    best_failure_time,  \* ... as read for best_tablet when it was examined
    backoff_skipped,    \* tablets the current scan skipped for backoff
    \* ---- garbage collector of retired artifacts ----
    gc_mutex,           \* holder of _gc_mutex, or None
    gc_files,           \* _gc_files: SegmentGroup* -> vector<string>
    unused_rowsets,     \* _unused_rowsets: the rowset ids tracked
    index_in_use,       \* SegmentGroup -> is_in_use()
    rowset_in_use,      \* rowset -> in_use()
    deleted_groups,     \* SegmentGroups the collector has deleted
    fs_files,           \* the segment files on disk
    remove_calls,       \* rowset -> number of remove() calls
    gc_pc,              \* position of the collector thread
    gc_it,              \* the iterator of the sweep
    gc_stale,           \* the key of the node the iterator was left on by erase
    sweep_tracked,      \* keys tracked when the sweep began
    sweep_idle,         \* keys not in use when the sweep began
    kept_in_use,        \* keys the sweep examined and found in use
    found_idle,         \* keys the sweep examined and found not in use
    sweep_removed,      \* file paths the sweep handed to remove_files
    \* ---- loading of a data dir ----
    convert_finished,   \* the store's tablet-convert-finished flag
    old_headers,        \* tablets with a header under OLD_HEADER_PREFIX
    old_pending,        \* old headers that carry a pending delta
    tablet_metas,       \* tablets with a meta under HEADER_PREFIX
    rowset_metas,       \* rowset id -> the stored rowset meta
    dir_rowset_metas,   \* the vector the load collects: parsed rowset ids
    load_pc,            \* position of _load_data_dir
    load_res,           \* what _load_data_dir returned, or None
    reconcile_pos,      \* index of the reconciliation loop
    txn_map,            \* TxnManager: << partition, txn, tablet, rowset >>
    tablet_rowsets,     \* tablet -> the rowsets attached by add_inc_rowset
    reconcile_log,      \* rowset id -> what the loop did with the meta
    warned,             \* rowset ids the loop logged a failed commit for
    load_round,         \* which load of the store this is: 1, or a restart
    start_flag,         \* the convert-finished flag when this load began
    legacy_ran,         \* this load invoked the legacy clean-up or conversion
    prev_load,          \* answers and result of the previous completed load
    \* ---- opening of the engine ----
    stored_cluster_id,  \* volume -> the cluster id its store reports
    initial_cluster_id, \* volume -> the cluster id stored before open
    config_cluster_id,  \* config::cluster_id
    effective_cluster_id,     \* _effective_cluster_id
    is_all_cluster_id_exist,  \* _is_all_cluster_id_exist
    open_pc,            \* position of StorageEngine::open
    open_res,           \* what open returned, or None
    cluster_id,         \* the local of check_all_root_path_cluster_id
    store_it,           \* the volume a loop over _store_map is at
    written,            \* volumes set_cluster_id wrote during this open
    worker_pc,          \* volume -> position of its load worker
    worker_res,         \* volume -> what its _load_data_dir returned, or None
    bg_worker_started,  \* _start_bg_worker has run
    \* ---- disk-health monitor ----
    is_used,            \* volume -> DataDir::is_used()
    volume_tablets,     \* volume -> the tablets the DataDir holds
    tablet_data,        \* the tablets whose data files are on a volume's disk
    min_percentage_of_error_disk,   \* _min_percentage_of_error_disk
    is_drop_tables,     \* _is_drop_tables
    is_report_disk_state_already,   \* _is_report_disk_state_already
    is_report_tablet_already,       \* _is_report_tablet_already
    report_pending,     \* the reporters report_notify woke that have not reported yet
    monitor_pc,         \* position of start_disk_stat_monitor
    rounds,             \* monitor rounds begun
    error_disks,        \* unused_root_path_num the last round tested
    notified,           \* report_notify calls of the monitor
    \* ---- trash and snapshot sweep ----
    data_dir_infos,     \* volume -> the DataDirInfo of get_all_data_dir_info
    dir_state,          \* << volume, directory >> -> ok, missing or unreadable
    dir_entries,        \* << volume, directory >> -> the entries it holds
    sweep_pc,           \* position of start_trash_sweep
    sweep_vol,          \* the volume the loop of start_trash_sweep is at
    sweep_dir,          \* the directory _do_sweep scans
    sweep_item,         \* the directory_iterator of _do_sweep
    curr_res,           \* res of _do_sweep
    sweep_res,          \* res of start_trash_sweep, None before it begins
    sweep_usage,        \* *usage, in percent
    scan_failed,        \* directories whose scan threw
    tablet_sweep_done,  \* TabletManager::start_trash_sweep has run
    \* ---- one call of _find_best_tablet_to_compaction on a fixed directory ----
    find_tablets,       \* tablet -> what the scan reads of it
    find_type,          \* compaction_type
    find_pc,            \* position of the call
    find_it,            \* index of the next tablet of the scan
    find_best,          \* best_tablet (NoTablet: nullptr)
    find_highest,       \* highest_score
    \* ---- perform_*_compaction on one tablet, with the metrics ----
    unix_millis,        \* UnixMillis()
    tablet_failure_time, \* the tablet's last_compaction_failure_time
    kind_lock,          \* compaction kind -> thread holding the tablet's lock, or None
    request_total,      \* kind -> DorisMetrics::*_compaction_request_total
    request_failed,     \* kind -> DorisMetrics::*_compaction_request_failed
    perform_pc,         \* thread -> position in perform_*_compaction
    perform_type,       \* thread -> kind of the call
    perform_calls,      \* calls of perform_*_compaction made
    last_pick,          \* the latest backoff test of a selection
    last_done,          \* the latest result of init() or run() handled
    last_write,         \* the latest result that wrote failure_time
    \* ---- add_unused_index / add_unused_rowset as functions of the registries ----
    reg_gc_files,       \* _gc_files: SegmentGroup -> recorded file paths
    reg_unused_rowsets, \* _unused_rowsets: rowset id -> rowset object
    reg_last,           \* the latest add and the registries before it
    \* ---- legacy conversion of one volume, step by step, with restarts ----
    cv_old_headers,     \* legacy header -> whether it parses and converts
    cv_flag,            \* the tablet-convert-finished flag of the store
    cv_tablet_metas,    \* converted tablet metas in the store
    cv_rowset_metas,    \* rowset metas (ids) in the store
    cv_pc,              \* position in _load_data_dir
    cv_it,              \* index of the legacy header the traversal is at
    cv_saved,           \* pending rowset metas of that header saved so far
    cv_res,             \* what _load_data_dir returned
    cv_registered,      \* tablets and rowsets this load registered
    cv_restarts,        \* times the process ended and started again
    cv_cleaned,         \* both clean-up traversals of this load removed all they met
    cv_left_behind,     \* tablet metas a clean-up failed to remove, not saved since
    cv_at_restart,      \* the metas in the store when the process last started
    \* ---- clear_transaction_task as a function of the transaction records ----
    clear_txn_map,      \* TxnManager: << partition_id, transaction_id, tablet >>
    clear_tablet_map,   \* the tablets TabletManager::get_tablet finds
    clear_last,         \* the latest call and the records before it
    \* ---- set_store_used_flag and _update_storage_medium_type_count ----
    store_lock,         \* _store_lock: the thread that holds it, or None
    flag_call,          \* thread -> its call of set_store_used_flag and where it is
    store_flags,        \* volume -> DataDir::is_used() as set_is_used left it
    medium_type_count,  \* _available_storage_medium_type_count
    \* ---- the locks the executor, the selector and the monitor take ----
    lock_pc,            \* thread -> where it is in its function
    tablet_map_lock,    \* _tablet_map_lock: threads reading, writers waiting
    held_header_lock,   \* tablet -> the thread holding its header write-lock, or None
    prefer_write        \* the directory lock keeps readers behind a waiting writer

dirVars == << tablet_map, header_lock >>

taskObjVars == << task_related, task_changed >>

runVars == << pc, tablet_infos, next_info, related_tablets, calls, call_status,
              ret, finish_locks, taskObjVars >>

taskVars == << dirVars, runVars >>

compVars == << now, compaction_lock, last_compaction_failure_time, cpc, ctype,
               scan_now, scan_pos, best_tablet, highest_score,
               seen_failure_time, best_failure_time, backoff_skipped >>

gcVars == << gc_mutex, gc_files, unused_rowsets, index_in_use,
             rowset_in_use, deleted_groups, fs_files, remove_calls, gc_pc, gc_it,
             gc_stale, sweep_tracked, sweep_idle, kept_in_use, found_idle,
             sweep_removed >>

reloadVars == << load_round, start_flag, legacy_ran, prev_load >>

loadOwnVars == << convert_finished, old_headers, old_pending, tablet_metas,
                  rowset_metas, dir_rowset_metas, load_pc, load_res, reconcile_pos,
                  tablet_rowsets, reconcile_log, warned, reloadVars >>

loadVars == << txn_map, loadOwnVars >>

openVars == << stored_cluster_id, initial_cluster_id, config_cluster_id,
               effective_cluster_id, is_all_cluster_id_exist, open_pc, open_res,
               cluster_id, store_it, written, worker_pc, worker_res,
               bg_worker_started >>

diskVars == << is_used, volume_tablets, tablet_data, min_percentage_of_error_disk,
               is_drop_tables, is_report_disk_state_already,
               is_report_tablet_already, monitor_pc, rounds, error_disks,
               notified , report_pending >>

trashVars == << data_dir_infos, dir_state, dir_entries, sweep_pc, sweep_vol,
                sweep_dir, sweep_item, curr_res, sweep_res, sweep_usage,
                scan_failed, tablet_sweep_done >>

findVars == << find_tablets, find_type, find_pc, find_it, find_best, find_highest >>

performVars == << unix_millis, tablet_failure_time, kind_lock, request_total,
                  request_failed, perform_pc, perform_type, perform_calls,
                  last_pick, last_done, last_write >>

registryVars == << reg_gc_files, reg_unused_rowsets, reg_last >>

convertVars == << cv_old_headers, cv_flag, cv_tablet_metas, cv_rowset_metas,
                  cv_pc, cv_it, cv_saved, cv_res, cv_registered, cv_restarts,
                  cv_cleaned, cv_left_behind, cv_at_restart >>

clearVars == << clear_txn_map, clear_tablet_map, clear_last >>

flagVars == << store_lock, flag_call, store_flags, medium_type_count >>

lockVars == << lock_pc, tablet_map_lock, held_header_lock, prefer_write >>

vars == << taskVars, compVars, gcVars, loadVars, openVars, diskVars, trashVars,
          findVars,
          performVars,
          registryVars,
          convertVars,
          clearVars,
          flagVars,
          lockVars >>

\* what the actions of one subsystem leave alone
nonTaskVars == << compVars, gcVars, loadVars, openVars, diskVars,
    trashVars, findVars,
    performVars,
    registryVars,
    convertVars,
    clearVars,
    flagVars,
    lockVars >>
nonCompVars == << dirVars, runVars, gcVars, loadVars, openVars, diskVars,
    trashVars, findVars,
    performVars,
    registryVars,
    convertVars,
    clearVars,
    flagVars,
    lockVars >>
nonGCVars == << dirVars, runVars, compVars, loadVars, openVars, diskVars,
    trashVars, findVars,
    performVars,
    registryVars,
    convertVars,
    clearVars,
    flagVars,
    lockVars >>
nonLoadVars == << header_lock, runVars, compVars, gcVars, openVars, diskVars,
    trashVars, findVars,
    performVars,
    registryVars,
    convertVars,
    clearVars,
    flagVars,
    lockVars >>
nonOpenVars == << header_lock, runVars, compVars, gcVars, loadOwnVars, diskVars,
    trashVars, findVars,
    performVars,
    registryVars,
    convertVars,
    clearVars,
    flagVars,
    lockVars >>
nonDiskVars == << header_lock, runVars, compVars, gcVars, loadVars, openVars,
    trashVars, findVars,
    performVars,
    registryVars,
    convertVars,
    clearVars,
    flagVars,
    lockVars >>
nonTrashVars == << taskVars, compVars, gcVars, loadVars, openVars, diskVars,
    findVars,
    performVars,
    registryVars,
    convertVars,
    clearVars,
    flagVars,
    lockVars >>
nonFindVars == << taskVars, compVars, gcVars, loadVars, openVars, diskVars,
    trashVars,
    performVars,
    registryVars,
    convertVars,
    clearVars,
    flagVars,
    lockVars >>
nonPerformVars == << taskVars, compVars, gcVars, loadVars, openVars, diskVars, trashVars, findVars,
    registryVars,
    convertVars,
    clearVars,
    flagVars,
    lockVars >>
nonRegistryVars == << taskVars, compVars, gcVars, loadVars, openVars, diskVars, trashVars, findVars, performVars,
    convertVars,
    clearVars,
    flagVars,
    lockVars >>
nonConvertVars == << taskVars, compVars, gcVars, loadVars, openVars, diskVars, trashVars, findVars, performVars, registryVars,
    clearVars,
    flagVars,
    lockVars >>
nonClearVars == << taskVars, compVars, gcVars, loadVars, openVars, diskVars, trashVars, findVars, performVars, registryVars, convertVars,
    flagVars,
    lockVars >>
nonFlagVars == << taskVars, compVars, gcVars, loadVars, openVars, diskVars, trashVars, findVars, performVars, registryVars, convertVars, clearVars,
    lockVars >>
\* _store_lock is the mutex of the set_store_used_flag section
nonLockVars == << taskVars, compVars, gcVars, loadVars, openVars, diskVars, trashVars, findVars, performVars, registryVars, convertVars, clearVars,
    flag_call, store_flags, medium_type_count >>

(***************************************************************************)
(* Helpers.                                                                *)
(***************************************************************************)
SeqsUpTo(S, n) == UNION { [1..k -> S] : k \in 0..n }

Range(s) == { s[i] : i \in DOMAIN s }

NoDuplicates(s) == \A i, j \in DOMAIN s : i # j => s[i] # s[j]

\* the elements of a vector with the number of times each occurs
BagOf(s) == [x \in Range(s) |-> Cardinality({ i \in DOMAIN s : s[i] = x })]

\* TabletInfo::operator< : by tablet_id, then by schema_hash
TabletInfoLess(a, b) == a[1] < b[1] \/ (a[1] = b[1] /\ a[2] < b[2])

SortTabletInfos_Unsorted(infos) == infos

\* sort(tablet_infos.begin(), tablet_infos.end())
SortTabletInfos(infos) == SortSeq(infos, TabletInfoLess)

(***************************************************************************)
(* execute_task                                                            *)
(***************************************************************************)
Phases == { "prepare", "execute", "finish" }

TaskInit ==
    /\ tablet_map \in SUBSET TabletInfos
    /\ header_lock = [t \in TabletInfos |-> None]
    /\ pc = [r \in Runs |-> "start"]
    /\ tablet_infos = [r \in Runs |-> << >>]
    /\ next_info = [r \in Runs |-> 1]
    /\ related_tablets = [r \in Runs |-> << >>]
    /\ calls = [r \in Runs |-> << >>]
    /\ call_status = [r \in Runs |-> [p \in Phases |-> None]]
    /\ ret = [r \in Runs |-> None]
    /\ finish_locks = [r \in Runs |-> 0]
    /\ task_related = [r \in Runs |-> BagOf(<< >>)]
    /\ task_changed = [r \in Runs |-> FALSE]

\* task->get_related_tablets(&tablet_infos); sort(...)
QueryRelated(r, infos, lockpc) ==
    /\ tablet_infos' = [tablet_infos EXCEPT ![r] = SortTabletInfos(infos)]
    /\ next_info' = [next_info EXCEPT ![r] = 1]
    /\ related_tablets' = [related_tablets EXCEPT ![r] = << >>]
    /\ pc' = [pc EXCEPT ![r] = lockpc]

\* entry of execute_task: the first query of the related tablets
BeginPrepare(r) ==
    /\ pc[r] = "start"
    /\ \E infos \in SeqsUpTo(TabletInfos, MaxRelated) :
          /\ QueryRelated(r, infos, "lock_prepare")
          /\ task_related' = [task_related EXCEPT ![r] = BagOf(infos)]
    /\ UNCHANGED << tablet_map, header_lock, calls, call_status, ret, finish_locks,
                    task_changed >>
    /\ UNCHANGED nonTaskVars

InLockLoop(r) == pc[r] \in { "lock_prepare", "lock_finish" }

LoopPending(r) == InLockLoop(r) /\ next_info[r] <= Len(tablet_infos[r])

CurrentInfo(r) == tablet_infos[r][next_info[r]]

HeaderLockFree_Always(t) == TRUE

\* obtain_header_wrlock() returns only when no run holds the write-lock
HeaderLockFree(t) == header_lock[t] = None

\* one iteration of the for loop over tablet_infos: get_tablet(), then
\* push_back + obtain_header_wrlock() or the warning
ResolveAndLock(r) ==
    /\ LoopPending(r)
    /\ LET t == CurrentInfo(r) IN
         IF t \in tablet_map
         THEN /\ HeaderLockFree(t)
              /\ header_lock' = [header_lock EXCEPT ![t] = r]
              /\ related_tablets' = [related_tablets EXCEPT ![r] = Append(@, t)]
              /\ finish_locks' = [finish_locks EXCEPT ![r] =
                                     IF pc[r] = "lock_finish" THEN @ + 1 ELSE @]
         ELSE UNCHANGED << header_lock, related_tablets, finish_locks >>
    /\ next_info' = [next_info EXCEPT ![r] = @ + 1]
    /\ UNCHANGED << tablet_map, pc, tablet_infos, calls, call_status, ret, taskObjVars >>
    /\ UNCHANGED nonTaskVars

\* the run enters a task callback
Invoke(r, phase, inpc) ==
    /\ calls' = [calls EXCEPT ![r] = Append(@, phase)]
    /\ pc' = [pc EXCEPT ![r] = inpc]

ReleaseHeaderLocks_AllButFirst(r) ==
    header_lock' = [t \in TabletInfos |->
                      IF /\ t \in Range(related_tablets[r])
                         /\ t # related_tablets[r][1]
                         /\ header_lock[t] = r
                      THEN None ELSE header_lock[t]]

\* for (tablet : related_tablets) tablet->release_header_lock()
ReleaseHeaderLocks(r) ==
    header_lock' = [t \in TabletInfos |->
                      IF t \in Range(related_tablets[r]) /\ header_lock[t] = r
                      THEN None ELSE header_lock[t]]

\* return status;
Return(r, status) ==
    /\ ret' = [ret EXCEPT ![r] = status]
    /\ pc' = [pc EXCEPT ![r] = "done"]

\* task->prepare() is called with the locks of the loop held
CallPrepare(r) ==
    /\ pc[r] = "lock_prepare"
    /\ next_info[r] > Len(tablet_infos[r])
    /\ Invoke(r, "prepare", "in_prepare")
    /\ UNCHANGED << tablet_map, header_lock, tablet_infos, next_info,
                    related_tablets, call_status, ret, finish_locks, taskObjVars >>
    /\ UNCHANGED nonTaskVars

PrepareFailed_Ignored(prepare_status) == FALSE

\* if (prepare_status != OLAP_SUCCESS)
PrepareFailed(prepare_status) == prepare_status # OLAP_SUCCESS

\* prepare() returns; the locks are released; a failure is returned
ReturnFromPrepare(r) ==
    /\ pc[r] = "in_prepare"
    /\ \E prepare_status \in TaskStatuses :
         /\ call_status' = [call_status EXCEPT ![r]["prepare"] = prepare_status]
         /\ ReleaseHeaderLocks(r)
         /\ IF PrepareFailed(prepare_status)
            THEN Return(r, prepare_status)
            ELSE /\ pc' = [pc EXCEPT ![r] = "before_execute"]
                 /\ UNCHANGED ret
    /\ UNCHANGED << tablet_map, tablet_infos, next_info, related_tablets,
                    calls, finish_locks, taskObjVars >>
    /\ UNCHANGED nonTaskVars

\* task->execute() is called
CallExecute(r) ==
    /\ pc[r] = "before_execute"
    /\ Invoke(r, "execute", "in_execute")
    /\ UNCHANGED << tablet_map, header_lock, tablet_infos, next_info,
                    related_tablets, call_status, ret, finish_locks, taskObjVars >>
    /\ UNCHANGED nonTaskVars

ExecuteFailed_Ignored(exec_status) == FALSE

\* if (exec_status != OLAP_SUCCESS)
ExecuteFailed(exec_status) == exec_status # OLAP_SUCCESS

QueryAgain_Reused(r, infos) ==
    /\ pc' = [pc EXCEPT ![r] = "lock_finish"]
    /\ next_info' = [next_info EXCEPT ![r] = 1]
    /\ related_tablets' = [related_tablets EXCEPT ![r] = << >>]
    /\ UNCHANGED tablet_infos

\* the second block: a new tablet_infos filled in by get_related_tablets
QueryAgain(r, infos) == QueryRelated(r, infos, "lock_finish")

\* execute() returns; a failure is returned, otherwise the related tablets
\* are queried and sorted again
ReturnFromExecute(r) ==
    /\ pc[r] = "in_execute"
    /\ \E exec_status \in TaskStatuses :
         /\ call_status' = [call_status EXCEPT ![r]["execute"] = exec_status]
         /\ IF ExecuteFailed(exec_status)
            THEN /\ Return(r, exec_status)
                 /\ UNCHANGED << tablet_infos, next_info, related_tablets, taskObjVars >>
            ELSE /\ \E infos \in SeqsUpTo(TabletInfos, MaxRelated) :
                        /\ QueryAgain(r, infos)
                        /\ task_related' = [task_related EXCEPT ![r] = BagOf(infos)]
                        /\ task_changed' = [task_changed EXCEPT ![r] =
                                               BagOf(infos) # task_related[r]]
                 /\ UNCHANGED ret
    /\ UNCHANGED << tablet_map, header_lock, calls, finish_locks >>
    /\ UNCHANGED nonTaskVars

\* task->finish() is called with the locks of the second loop held
CallFinish(r) ==
    /\ pc[r] = "lock_finish"
    /\ next_info[r] > Len(tablet_infos[r])
    /\ Invoke(r, "finish", "in_finish")
    /\ UNCHANGED << tablet_map, header_lock, tablet_infos, next_info,
                    related_tablets, call_status, ret, finish_locks, taskObjVars >>
    /\ UNCHANGED nonTaskVars

\* finish() returns; the locks are released; its status is returned
ReturnFromFinish(r) ==
    /\ pc[r] = "in_finish"
    /\ \E fin_status \in TaskStatuses :
         /\ call_status' = [call_status EXCEPT ![r]["finish"] = fin_status]
         /\ ReleaseHeaderLocks(r)
         /\ Return(r, fin_status)
    /\ task_changed' = [task_changed EXCEPT ![r] = FALSE]
    /\ UNCHANGED << tablet_map, tablet_infos, next_info, related_tablets,
                    calls, finish_locks, task_related >>
    /\ UNCHANGED nonTaskVars

TaskNext ==
    \E r \in Runs :
        \/ BeginPrepare(r)
        \/ ResolveAndLock(r)
        \/ CallPrepare(r)
        \/ ReturnFromPrepare(r)
        \/ CallExecute(r)
        \/ ReturnFromExecute(r)
        \/ CallFinish(r)
        \/ ReturnFromFinish(r)


(***************************************************************************)
(* Properties of execute_task                                              *)
(***************************************************************************)
\* the header write-locks a run holds
HeldBy(r) == { t \in TabletInfos : header_lock[t] = r }

Returned(r) == ret[r] # None

Invoked(r, phase) == \E i \in DOMAIN calls[r] : calls[r][i] = phase

\* C1: when prepare() returns a non-success status, execute() and finish()
\* are never invoked in that run, execute_task returns exactly prepare's
\* status, and the run holds no tablet header lock when it returns.
C1_PrepareFailureIsReturned ==
    \A r \in Runs :
        (call_status[r]["prepare"] \notin { None, OLAP_SUCCESS }) =>
            /\ calls[r] = << "prepare" >>
            /\ Returned(r)
            /\ ret[r] = call_status[r]["prepare"]
            /\ HeldBy(r) = {}

\* a run that locked two tablets for a prepare() that failed, and returned
C1_Witness ==
    \E r \in Runs :
        /\ call_status[r]["prepare"] = "OLAP_ERR_OTHER_ERROR"
        /\ Len(related_tablets[r]) = 2
        /\ Returned(r)

\* the run r is blocked in obtain_header_wrlock()
Waiting(r) ==
    /\ LoopPending(r)
    /\ CurrentInfo(r) \in tablet_map
    /\ header_lock[CurrentInfo(r)] # None

\* the run that holds the lock r is blocked on
Owner(r) == header_lock[CurrentInfo(r)]

\* r is blocked on a lock it took itself (a repeated entry of its vector)
SelfBlocked(r) == Waiting(r) /\ Owner(r) = r

\* the run reached from r by following k lock waits (None: the chain ends)
RECURSIVE WaitChain(_, _)
WaitChain(r, k) ==
    IF k = 0 THEN r
    ELSE LET q == WaitChain(r, k - 1) IN
         IF q # None /\ Waiting(q) /\ Owner(q) # q THEN Owner(q) ELSE None

\* C2: concurrent runs with overlapping related tablets never wait on each
\* other in a cycle, and as long as no run lists a tablet twice some run
\* that has not returned can always take its next step, so all complete.
C2_LockOrderSafety ==
    /\ \A r \in Runs : \A k \in 1..Cardinality(Runs) : WaitChain(r, k) # r
    /\ (\A r \in Runs : NoDuplicates(tablet_infos[r])) =>
          /\ \A r \in Runs : ~SelfBlocked(r)
          /\ (\E r \in Runs : ~Returned(r)) =>
                (\E r \in Runs : ~Returned(r) /\ ~Waiting(r))

\* run1 waits for a lock of run2 while their vectors share two registered
\* tablets
C2_Witness ==
    /\ Waiting("run1")
    /\ Owner("run1") = "run2"
    /\ Cardinality(Range(tablet_infos["run1"]) \cap Range(tablet_infos["run2"])
                   \cap tablet_map) = 2

\* C38 (the claim as stated): in each locking phase a run takes the header
\* write-lock of a resolved tablet at most once, also when its vector lists
\* the tablet more than once, so no run ever waits for a lock it holds
\* itself.
C38_NoSelfBlocking ==
    \A r \in Runs :
        /\ ~SelfBlocked(r)
        /\ LoopPending(r) => CurrentInfo(r) \notin Range(related_tablets[r])

\* C3: a run inside execute() holds no tablet header lock, and a run that
\* has returned, from any phase, holds none of the locks it acquired.
C3_NoLockInExecuteNorAfterReturn ==
    \A r \in Runs :
        /\ pc[r] = "in_execute" => HeldBy(r) = {}
        /\ Returned(r) => HeldBy(r) = {}

\* one run is inside execute() after a prepare() under two locks, the other
\* has returned from a finish() under two locks
C3_Witness ==
    \E r, q \in Runs :
        /\ pc[r] = "in_execute"
        /\ Len(related_tablets[r]) = 2
        /\ Returned(q)
        /\ Invoked(q, "finish")
        /\ Len(related_tablets[q]) = 2

\* C4: the callbacks are invoked in the order prepare, execute, finish, each
\* at most once; execute only after prepare succeeded, finish only after
\* execute succeeded; an execute failure is returned without finish and
\* without taking a lock again; the status returned is that of the last
\* callback invoked.
C4_PhaseOrder ==
    \A r \in Runs :
        /\ calls[r] \in { << >>, << "prepare" >>, << "prepare", "execute" >>,
                          << "prepare", "execute", "finish" >> }
        /\ Invoked(r, "execute") => call_status[r]["prepare"] = OLAP_SUCCESS
        /\ Invoked(r, "finish") => call_status[r]["execute"] = OLAP_SUCCESS
        /\ (call_status[r]["execute"] \notin { None, OLAP_SUCCESS }) =>
              /\ Returned(r)
              /\ ret[r] = call_status[r]["execute"]
              /\ ~Invoked(r, "finish")
              /\ finish_locks[r] = 0
        /\ Returned(r) =>
              /\ calls[r] # << >>
              /\ ret[r] = call_status[r][calls[r][Len(calls[r])]]

\* one run returned the failure of execute(), the other the status of
\* finish()
C4_Witness ==
    \E r, q \in Runs :
        /\ ret[r] = "OLAP_ERR_INPUT_PARAMETER_ERROR"
        /\ calls[r] = << "prepare", "execute" >>
        /\ ret[q] = "OLAP_ERR_OTHER_ERROR"
        /\ calls[q] = << "prepare", "execute", "finish" >>
        /\ finish_locks[q] = 2

\* the run is inside task.prepare() or task.finish()
InCallback(r) == pc[r] \in { "in_prepare", "in_finish" }

\* the tablets of the run's vector that get_tablet() resolved
Resolved(r) == Range(tablet_infos[r]) \cap tablet_map

\* C18: a run inside prepare() or finish() holds the header write-lock of
\* every related tablet that resolved in that phase, so two runs are never
\* inside prepare()/finish() at once for tasks that share a resolved tablet.
C18_HeaderLockExclusion ==
    /\ \A r \in Runs :
          InCallback(r) => \A t \in Resolved(r) : header_lock[t] = r
    /\ \A r, q \in Runs :
          (r # q /\ InCallback(r) /\ InCallback(q)) =>
              Resolved(r) \cap Resolved(q) = {}

\* a run is inside finish() under two locks while the other run, which names
\* one of the two tablets, is blocked on it
C18_Witness ==
    \E r, q \in Runs :
        /\ pc[r] = "in_finish"
        /\ Cardinality(Resolved(r)) = 2
        /\ Waiting(q)
        /\ Owner(q) = r
        /\ pc[q] = "lock_prepare"

\* the tablets of the task's last answer that resolve in the directory
ResolvedOfAnswer(r) == DOMAIN task_related[r] \cap tablet_map

\* the loop of a locking phase has gone through the whole vector
LoopDone(r) == InLockLoop(r) /\ next_info[r] > Len(tablet_infos[r])

\* C19: the locks held during prepare() and during finish() are those of the
\* resolving tablets of the answer get_related_tablets gave in that phase,
\* for finish() the second answer; an entry that does not resolve is skipped,
\* after the loop the callback is invoked with the other locks held, and the
\* status returned is that of the last callback whatever was skipped.
C19_RelatedTabletsRequeried ==
    \A r \in Runs :
        /\ InCallback(r) =>
              /\ HeldBy(r) = ResolvedOfAnswer(r)
              /\ Range(related_tablets[r]) = ResolvedOfAnswer(r)
        /\ LoopDone(r) =>
              /\ HeldBy(r) = ResolvedOfAnswer(r)
              /\ ENABLED (CallPrepare(r) \/ CallFinish(r))
        /\ Returned(r) => ret[r] = call_status[r][calls[r][Len(calls[r])]]

\* a run is inside finish() after the task changed its answer, with one entry
\* of the second answer skipped and one locked; the other run returned the
\* success of a finish() for which an entry was skipped
C19_Witness ==
    \E r, q \in Runs :
        /\ pc[r] = "in_finish"
        /\ task_changed[r]
        /\ Cardinality(HeldBy(r)) = 1
        /\ Cardinality(DOMAIN task_related[r] \ tablet_map) = 1
        /\ Returned(q)
        /\ Invoked(q, "finish")
        /\ ret[q] = OLAP_SUCCESS
        /\ DOMAIN task_related[q] \ tablet_map # {}

(***************************************************************************)
(* Compaction scheduler                                                    *)
(***************************************************************************)
\* scheduler threads calling perform_cumulative_compaction /
\* perform_base_compaction
CompactionThreads == { "ct1", "ct2" }

CUMULATIVE_COMPACTION == "CUMULATIVE_COMPACTION"
BASE_COMPACTION == "BASE_COMPACTION"
CompactionTypes == { CUMULATIVE_COMPACTION, BASE_COMPACTION }

\* the tablets of the directory the scheduler scans
CompactionTablets == { <<3, 2>>, <<7, 1>> }

\* the scores get_base_compaction_score() / get_cumulative_compaction_score()
\* may report (uint32_t)
CompactionScores == { 0, 1, 2 }

\* config::min_compaction_failure_interval_sec
min_compaction_failure_interval_sec == 1

\* UnixMillis() when the scheduler starts, and the step of the clock
StartMillis == 5000
TickMillis == 1000

\* init() outcomes: lock contention
TryLockError(type) ==
    IF type = CUMULATIVE_COMPACTION THEN "OLAP_ERR_CE_TRY_CE_LOCK_ERROR"
                                    ELSE "OLAP_ERR_BE_TRY_BE_LOCK_ERROR"

\* init() outcomes: no eligible version
NoSuitableVersion(type) ==
    IF type = CUMULATIVE_COMPACTION THEN "OLAP_ERR_CUMULATIVE_NO_SUITABLE_VERSIONS"
                                    ELSE "OLAP_ERR_BE_NO_SUITABLE_VERSION"

\* any other failure of init() or run()
OtherCompactionError(type) ==
    IF type = CUMULATIVE_COMPACTION THEN "OLAP_ERR_CUMULATIVE_INVALID_PARAMETERS"
                                    ELSE "OLAP_ERR_BE_INVALID_PARAMETERS"

CompactionInit ==
    /\ now = StartMillis
    /\ compaction_lock = [t \in TabletInfos |-> [k \in CompactionTypes |-> None]]
    /\ last_compaction_failure_time = [t \in TabletInfos |-> 0]
    /\ cpc = [th \in CompactionThreads |-> "idle"]
    /\ ctype = [th \in CompactionThreads |-> CUMULATIVE_COMPACTION]
    /\ scan_now = [th \in CompactionThreads |-> 0]
    /\ scan_pos = [th \in CompactionThreads |-> 1]
    /\ best_tablet = [th \in CompactionThreads |-> NoTablet]
    /\ highest_score = [th \in CompactionThreads |-> 0]
    /\ seen_failure_time = [th \in CompactionThreads |-> 0]
    /\ best_failure_time = [th \in CompactionThreads |-> 0]
    /\ backoff_skipped = [th \in CompactionThreads |-> {}]

\* the scheduler's variables when no scheduler thread runs
CompactionQuiet ==
    /\ now = StartMillis
    /\ compaction_lock = << >>
    /\ last_compaction_failure_time = << >>
    /\ cpc = << >>
    /\ ctype = << >>
    /\ scan_now = << >>
    /\ scan_pos = << >>
    /\ best_tablet = << >>
    /\ highest_score = << >>
    /\ seen_failure_time = << >>
    /\ best_failure_time = << >>
    /\ backoff_skipped = << >>

\* the tablet directory and header locks of the scheduler's specification
CompactionDirectory ==
    /\ tablet_map = CompactionTablets
    /\ header_lock = [t \in TabletInfos |-> None]

\* for (table_ins : _tablet_map) for (table_ptr : table_arr): the iteration
\* order of the directory
ScanOrder == SortTabletInfos(CHOOSE s \in [1..Cardinality(tablet_map) -> tablet_map] :
                                Range(s) = tablet_map)

\* perform_*_compaction returns: the thread's locals are gone
ThreadReturns(th) ==
    /\ cpc' = [cpc EXCEPT ![th] = "idle"]
    /\ ctype' = [ctype EXCEPT ![th] = CUMULATIVE_COMPACTION]
    /\ scan_now' = [scan_now EXCEPT ![th] = 0]
    /\ scan_pos' = [scan_pos EXCEPT ![th] = 1]
    /\ best_tablet' = [best_tablet EXCEPT ![th] = NoTablet]
    /\ highest_score' = [highest_score EXCEPT ![th] = 0]
    /\ seen_failure_time' = [seen_failure_time EXCEPT ![th] = 0]
    /\ best_failure_time' = [best_failure_time EXCEPT ![th] = 0]
    /\ backoff_skipped' = [backoff_skipped EXCEPT ![th] = {}]

\* the clock advances
Tick ==
    /\ now < StartMillis + MaxTicks * TickMillis
    /\ now' = now + TickMillis
    /\ UNCHANGED << compaction_lock, last_compaction_failure_time, cpc, ctype,
                    scan_now, scan_pos, best_tablet, highest_score,
                    seen_failure_time, best_failure_time, backoff_skipped >>
    /\ UNCHANGED nonCompVars

\* perform_cumulative_compaction / perform_base_compaction enter
\* _find_best_tablet_to_compaction: highest_score = 0, now = UnixMillis()
BeginFindBest(th) ==
    /\ cpc[th] = "idle"
    /\ \E type \in CompactionTypes : ctype' = [ctype EXCEPT ![th] = type]
    /\ cpc' = [cpc EXCEPT ![th] = "scan"]
    /\ scan_now' = [scan_now EXCEPT ![th] = now]
    /\ scan_pos' = [scan_pos EXCEPT ![th] = 1]
    /\ best_tablet' = [best_tablet EXCEPT ![th] = NoTablet]
    /\ highest_score' = [highest_score EXCEPT ![th] = 0]
    /\ best_failure_time' = [best_failure_time EXCEPT ![th] = 0]
    /\ backoff_skipped' = [backoff_skipped EXCEPT ![th] = {}]
    /\ UNCHANGED << now, compaction_lock, last_compaction_failure_time,
                    seen_failure_time >>
    /\ UNCHANGED nonCompVars

InBackoff_BoundaryExcluded(local_now, failure_time) ==
    local_now - failure_time < min_compaction_failure_interval_sec * 1000

\* now - last_compaction_failure_time() <= min_compaction_failure_interval_sec * 1000
InBackoff(local_now, failure_time) ==
    local_now - failure_time <= min_compaction_failure_interval_sec * 1000

TryLockFails_Never(t, type) == FALSE

\* !try_cumulative_lock() / !try_base_compaction_lock(): some thread holds
\* the lock of the kind
TryLockFails(t, type) == compaction_lock[t][type] # None

\* one iteration of the scan up to the try-lock: the volume / used / loaded /
\* _can_do_compaction test, the backoff test, try_*_lock()
ExamineTablet(th) ==
    /\ cpc[th] = "scan"
    /\ scan_pos[th] <= Len(ScanOrder)
    /\ LET t == ScanOrder[scan_pos[th]] IN
       \E candidate \in BOOLEAN :     \* same volume, used, loaded, _can_do_compaction
         /\ seen_failure_time' = [seen_failure_time EXCEPT ![th] =
                                     last_compaction_failure_time[t]]
         /\ IF ~candidate
            THEN /\ scan_pos' = [scan_pos EXCEPT ![th] = @ + 1]
                 /\ UNCHANGED << cpc, compaction_lock, backoff_skipped >>
            ELSE IF InBackoff(scan_now[th], last_compaction_failure_time[t])
            THEN /\ scan_pos' = [scan_pos EXCEPT ![th] = @ + 1]
                 /\ backoff_skipped' = [backoff_skipped EXCEPT ![th] = @ \cup { t }]
                 /\ UNCHANGED << cpc, compaction_lock >>
            ELSE IF TryLockFails(t, ctype[th])
            THEN /\ scan_pos' = [scan_pos EXCEPT ![th] = @ + 1]
                 /\ UNCHANGED << cpc, compaction_lock, backoff_skipped >>
            ELSE /\ compaction_lock' = [compaction_lock EXCEPT ![t][ctype[th]] = th]
                 /\ cpc' = [cpc EXCEPT ![th] = "probe"]
                 /\ UNCHANGED << scan_pos, backoff_skipped >>
    /\ UNCHANGED << now, last_compaction_failure_time, ctype, scan_now,
                    best_tablet, highest_score, best_failure_time >>
    /\ UNCHANGED nonCompVars

ScoreBeats_OrEqual(table_score, highest) == table_score >= highest

\* every tablet examined replaces the best one
ScoreBeats_Always(table_score, highest) == TRUE

\* if (table_score > highest_score)
ScoreBeats(table_score, highest) == table_score > highest

\* the rest of the iteration: release_*_lock(), the header read-lock, the
\* score and the comparison with highest_score
ScoreTablet(th) ==
    /\ cpc[th] = "probe"
    /\ LET t == ScanOrder[scan_pos[th]] IN
         /\ header_lock[t] = None       \* ReadLock rdlock(get_header_lock_ptr())
         /\ compaction_lock' = [compaction_lock EXCEPT ![t][ctype[th]] = None]
         /\ \E table_score \in CompactionScores :
              IF ScoreBeats(table_score, highest_score[th])
              THEN /\ highest_score' = [highest_score EXCEPT ![th] = table_score]
                   /\ best_tablet' = [best_tablet EXCEPT ![th] = t]
                   /\ best_failure_time' = [best_failure_time EXCEPT ![th] =
                                               seen_failure_time[th]]
              ELSE UNCHANGED << highest_score, best_tablet, best_failure_time >>
    /\ scan_pos' = [scan_pos EXCEPT ![th] = @ + 1]
    /\ cpc' = [cpc EXCEPT ![th] = "scan"]
    /\ UNCHANGED << now, last_compaction_failure_time, ctype, scan_now,
                    seen_failure_time, backoff_skipped >>
    /\ UNCHANGED nonCompVars

\* _find_best_tablet_to_compaction returns best_tablet;
\* if (best_tablet == nullptr) { return; }
EndFindBest(th) ==
    /\ cpc[th] = "scan"
    /\ scan_pos[th] > Len(ScanOrder)
    /\ IF best_tablet[th] = NoTablet
       THEN ThreadReturns(th)
       ELSE /\ cpc' = [cpc EXCEPT ![th] = "init"]
            /\ UNCHANGED << ctype, scan_now, scan_pos, best_tablet, highest_score,
                            seen_failure_time, best_failure_time, backoff_skipped >>
    /\ UNCHANGED << now, compaction_lock, last_compaction_failure_time >>
    /\ UNCHANGED nonCompVars

\* what init() may return, and whether it leaves the per-kind lock held:
\* the lock is tried first; a failed init gives it back
InitOutcomes(th) ==
    LET t == best_tablet[th] IN
    IF compaction_lock[t][ctype[th]] # None
    THEN { [res |-> TryLockError(ctype[th]), locked |-> FALSE] }
    ELSE { [res |-> OLAP_SUCCESS, locked |-> TRUE],
           [res |-> NoSuitableVersion(ctype[th]), locked |-> FALSE],
           [res |-> OtherCompactionError(ctype[th]), locked |-> FALSE] }

InitFailed_Ignored(res) == FALSE

\* if (res != OLAP_SUCCESS) { ... return; }
InitFailed(res) == res # OLAP_SUCCESS

\* whether a failed init() sets last_compaction_failure_time
InitFailureArmsBackoff(type, res) ==
    IF type = CUMULATIVE_COMPACTION
    THEN res \notin { "OLAP_ERR_CUMULATIVE_REPEAT_INIT", "OLAP_ERR_CE_TRY_CE_LOCK_ERROR" }
    ELSE res \notin { "OLAP_ERR_BE_TRY_BE_LOCK_ERROR", "OLAP_ERR_BE_NO_SUITABLE_VERSION" }

\* compaction.init(best_tablet) and the handling of its result
InitCompaction(th) ==
    /\ cpc[th] = "init"
    /\ LET t == best_tablet[th] IN
       \E o \in InitOutcomes(th) :
         /\ compaction_lock' = IF o.locked
                               THEN [compaction_lock EXCEPT ![t][ctype[th]] = th]
                               ELSE compaction_lock
         /\ IF InitFailed(o.res)
            THEN /\ last_compaction_failure_time' =
                        IF InitFailureArmsBackoff(ctype[th], o.res)
                        THEN [last_compaction_failure_time EXCEPT ![t] = now]
                        ELSE last_compaction_failure_time
                 /\ ThreadReturns(th)
            ELSE /\ cpc' = [cpc EXCEPT ![th] = "run"]
                 /\ UNCHANGED << last_compaction_failure_time, ctype, scan_now,
                                 scan_pos, best_tablet, highest_score,
                                 seen_failure_time, best_failure_time,
                                 backoff_skipped >>
    /\ UNCHANGED now
    /\ UNCHANGED nonCompVars

\* compaction.run() returns and the compaction object gives the lock back;
\* a failure sets last_compaction_failure_time, a success resets it
ReturnFromRun(th) ==
    /\ cpc[th] = "run"
    /\ LET t == best_tablet[th] IN
       \E res \in { OLAP_SUCCESS, OtherCompactionError(ctype[th]) } :
         /\ compaction_lock' =
               IF compaction_lock[t][ctype[th]] = th
               THEN [compaction_lock EXCEPT ![t][ctype[th]] = None]
               ELSE compaction_lock
         /\ last_compaction_failure_time' =
               [last_compaction_failure_time EXCEPT ![t] =
                   IF res # OLAP_SUCCESS THEN now ELSE 0]
    /\ ThreadReturns(th)
    /\ UNCHANGED now
    /\ UNCHANGED nonCompVars

CompactionNext ==
    \/ Tick
    \/ \E th \in CompactionThreads :
          \/ BeginFindBest(th)
          \/ ExamineTablet(th)
          \/ ScoreTablet(th)
          \/ EndFindBest(th)
          \/ InitCompaction(th)
          \/ ReturnFromRun(th)

TaskQuiet ==
    /\ pc = << >>
    /\ tablet_infos = << >>
    /\ next_info = << >>
    /\ related_tablets = << >>
    /\ calls = << >>
    /\ call_status = << >>
    /\ ret = << >>
    /\ finish_locks = << >>
    /\ task_related = << >>
    /\ task_changed = << >>

\* the threads running a compaction of one kind on a tablet
Running(t, type) ==
    { th \in CompactionThreads :
         cpc[th] = "run" /\ best_tablet[th] = t /\ ctype[th] = type }

\* C5: at most one compaction of a kind runs on a tablet at any time, also
\* when several scheduler threads select the same best tablet.
C5_NoDoubleCompaction ==
    \A t \in TabletInfos : \A type \in CompactionTypes :
        /\ Cardinality(Running(t, type)) <= 1
        /\ \A th \in Running(t, type) : compaction_lock[t][type] = th

\* one thread runs a compaction on the tablet another thread has selected
\* for the same kind and is about to init
C5_Witness ==
    \E th, other \in CompactionThreads :
        /\ th # other
        /\ cpc[th] = "run"
        /\ cpc[other] = "init"
        /\ best_tablet[other] = best_tablet[th]
        /\ ctype[other] = ctype[th]

\* C6: a tablet whose last failure, as the scan reads it, lies within the
\* backoff interval (now - last_compaction_failure_time <= interval, the
\* boundary included) is never the scan's best tablet, for either kind and
\* whatever its score.
C6_BackoffRespected ==
    \A th \in CompactionThreads :
        /\ cpc[th] = "probe" =>
              scan_now[th] - seen_failure_time[th] > min_compaction_failure_interval_sec * 1000
        /\ best_tablet[th] # NoTablet =>
              scan_now[th] - best_failure_time[th] > min_compaction_failure_interval_sec * 1000
        /\ \A t \in backoff_skipped[th] :
              cpc[th] \in { "scan", "probe" } => best_tablet[th] # t

\* a scan skipped a tablet whose failure is exactly one interval old and
\* returned another tablet
C6_Witness ==
    \E th \in CompactionThreads : \E t \in backoff_skipped[th] :
        /\ cpc[th] = "init"
        /\ best_tablet[th] # t
        /\ scan_now[th] - last_compaction_failure_time[t]
              = min_compaction_failure_interval_sec * 1000

\* the per-kind compaction locks a scheduler thread holds
LocksOf(th) ==
    { << t, k >> \in TabletInfos \X CompactionTypes : compaction_lock[t][k] = th }

\* C21: the scan holds a per-kind lock only between the try-lock and the
\* release of one probe, and then only that of the tablet probed; when the
\* scan has returned the thread holds no compaction lock, not even that of
\* the tablet returned; and a tablet is probed, and so can become the best
\* tablet, only while no compaction of the kind runs on it.
C21_SelectionOnlyProbes ==
    \A th \in CompactionThreads :
        /\ cpc[th] \in { "idle", "scan", "init" } => LocksOf(th) = {}
        /\ cpc[th] = "probe" =>
              /\ LocksOf(th) = { << ScanOrder[scan_pos[th]], ctype[th] >> }
              /\ Running(ScanOrder[scan_pos[th]], ctype[th]) = {}

\* a scan has returned a tablet, holds no lock, and has skipped the other
\* tablet on which a compaction of the same kind runs
C21_Witness ==
    \E th, other \in CompactionThreads :
        /\ cpc[th] = "init"
        /\ LocksOf(th) = {}
        /\ cpc[other] = "run"
        /\ ctype[other] = ctype[th]
        /\ best_tablet[other] # best_tablet[th]
        /\ best_tablet[th] = ScanOrder[2]

(***************************************************************************)
(* _find_best_tablet_to_compaction as a function of what it reads          *)
(***************************************************************************)
\* UnixMillis() at the call
FindNow == StartMillis + 2 * TickMillis

\* a tablet of the requested store that passes every test, with its scores
Healthy(base, cumulative) ==
    [ same_store |-> TRUE, is_used |-> TRUE, is_loaded |-> TRUE,
      can_do_compaction |-> TRUE, last_compaction_failure_time |-> 0,
      try_cumulative_lock |-> TRUE, try_base_compaction_lock |-> TRUE,
      base_compaction_score |-> base, cumulative_compaction_score |-> cumulative ]

TopScore == 2

\* what the scan may read of a tablet: one that passes with any pair of
\* scores, and top-scoring ones that fail one test, that failed exactly the
\* backoff interval ago or longer ago, or whose lock of one kind is taken
TabletReadings ==
    { Healthy(b, c) : b, c \in CompactionScores }
    \cup { [Healthy(TopScore, TopScore) EXCEPT !.same_store = FALSE],
           [Healthy(TopScore, TopScore) EXCEPT !.is_used = FALSE],
           [Healthy(TopScore, TopScore) EXCEPT !.is_loaded = FALSE],
           [Healthy(TopScore, TopScore) EXCEPT !.can_do_compaction = FALSE],
           [Healthy(TopScore, TopScore) EXCEPT !.last_compaction_failure_time =
               FindNow - min_compaction_failure_interval_sec * 1000],
           [Healthy(1, 1) EXCEPT !.last_compaction_failure_time =
               FindNow - min_compaction_failure_interval_sec * 1000 - TickMillis],
           [Healthy(TopScore, TopScore) EXCEPT !.try_cumulative_lock = FALSE],
           [Healthy(TopScore, TopScore) EXCEPT !.try_base_compaction_lock = FALSE] }

\* entry of the function: highest_score = 0, best_tablet null
FindInit ==
    /\ find_tablets \in [TabletInfos -> TabletReadings]
    /\ find_type \in CompactionTypes
    /\ find_pc = "scan"
    /\ find_it = 1
    /\ find_best = NoTablet
    /\ find_highest = 0

FindQuiet ==
    /\ find_tablets = << >>
    /\ find_type = CUMULATIVE_COMPACTION
    /\ find_pc = "returned"
    /\ find_it = 1
    /\ find_best = NoTablet
    /\ find_highest = 0

\* the directory the call scans
FindDirectory ==
    /\ tablet_map = TabletInfos
    /\ header_lock = [t \in TabletInfos |-> None]

\* the first test of the loop body
SkippedAtFirst(reading) ==
    \/ ~reading.same_store
    \/ ~reading.is_used
    \/ ~reading.is_loaded
    \/ ~reading.can_do_compaction

\* try_cumulative_lock() / try_base_compaction_lock() for the kind
TryLock(reading, type) ==
    IF type = CUMULATIVE_COMPACTION
        THEN reading.try_cumulative_lock
        ELSE reading.try_base_compaction_lock

\* get_base_compaction_score() / get_cumulative_compaction_score() for the kind
TableScore(reading, type) ==
    IF type = BASE_COMPACTION
        THEN reading.base_compaction_score
        ELSE reading.cumulative_compaction_score

\* one iteration of the loop
FindExamine ==
    /\ find_pc = "scan"
    /\ find_it <= Len(ScanOrder)
    /\ LET t == ScanOrder[find_it]
           reading == find_tablets[t]
       IN  IF \/ SkippedAtFirst(reading)
              \/ InBackoff(FindNow, reading.last_compaction_failure_time)
              \/ ~TryLock(reading, find_type)
           THEN UNCHANGED << find_best, find_highest >>
           ELSE /\ header_lock[t] = None
                /\ IF ScoreBeats(TableScore(reading, find_type), find_highest)
                   THEN /\ find_highest' = TableScore(reading, find_type)
                        /\ find_best' = t
                   ELSE UNCHANGED << find_best, find_highest >>
    /\ find_it' = find_it + 1
    /\ UNCHANGED << find_tablets, find_type, find_pc >>
    /\ UNCHANGED nonFindVars

\* return best_tablet;
FindReturn ==
    /\ find_pc = "scan"
    /\ find_it > Len(ScanOrder)
    /\ find_pc' = "returned"
    /\ UNCHANGED << find_tablets, find_type, find_it, find_best, find_highest >>
    /\ UNCHANGED nonFindVars

FindNext ==
    \/ FindExamine
    \/ FindReturn

\* the tablets that pass every test of the loop for the kind of the call
FindCandidates ==
    { t \in tablet_map :
         /\ find_tablets[t].same_store
         /\ find_tablets[t].is_used
         /\ find_tablets[t].is_loaded
         /\ find_tablets[t].can_do_compaction
         /\ FindNow - find_tablets[t].last_compaction_failure_time
               > min_compaction_failure_interval_sec * 1000
         /\ (find_type = CUMULATIVE_COMPACTION => find_tablets[t].try_cumulative_lock)
         /\ (find_type = BASE_COMPACTION => find_tablets[t].try_base_compaction_lock) }

\* the score of the kind of the call
FindScore(t) ==
    IF find_type = BASE_COMPACTION
        THEN find_tablets[t].base_compaction_score
        ELSE find_tablets[t].cumulative_compaction_score

\* the place of a tablet in the scan
ScanIndex(t) == CHOOSE i \in DOMAIN ScanOrder : ScanOrder[i] = t

\* C20: the tablet _find_best_tablet_to_compaction returns belongs to the
\* requested volume, is used, loaded and eligible, is outside backoff and its
\* lock of the kind was free at the probe; no such candidate scores higher,
\* and none with the same score comes earlier in the scan; a tablet is
\* returned whenever a candidate has a score above the initial highest_score.
C20_BestTabletSelection ==
    find_pc = "returned" =>
        /\ find_best # NoTablet =>
              /\ find_best \in FindCandidates
              /\ find_highest = FindScore(find_best)
              /\ \A c \in FindCandidates :
                    /\ FindScore(c) <= FindScore(find_best)
                    /\ FindScore(c) = FindScore(find_best) =>
                          ScanIndex(find_best) <= ScanIndex(c)
        /\ (\E c \in FindCandidates : FindScore(c) > 0) => find_best # NoTablet

\* a base scan returned the second tablet of the scan: the first has the top
\* score but its base lock was taken, the third ties with the second
C20_Witness ==
    /\ find_pc = "returned"
    /\ find_type = BASE_COMPACTION
    /\ find_best = ScanOrder[2]
    /\ ~find_tablets[ScanOrder[1]].try_base_compaction_lock
    /\ find_tablets[ScanOrder[1]].try_cumulative_lock
    /\ ScanOrder[3] \in FindCandidates
    /\ FindScore(ScanOrder[3]) = FindScore(ScanOrder[2])
    /\ FindScore(ScanOrder[2]) = 1
    /\ find_tablets[ScanOrder[2]].cumulative_compaction_score = 0

\* C36: _find_best_tablet_to_compaction never returns a tablet whose score
\* of the requested kind is 0: while it scans and when it returns, the best
\* tablet, if any, has a positive score, and when every candidate scores 0
\* it returns none although candidates exist.
C36_ZeroScoreNeverSelected ==
    /\ find_best # NoTablet =>
          /\ FindScore(find_best) > 0
          /\ find_highest > 0
    /\ (find_pc = "returned" /\ \A c \in FindCandidates : FindScore(c) = 0) =>
          find_best = NoTablet

\* a scan returned none although every tablet of the directory is a
\* candidate: all of them score 0 for the kind of the call, and one scores
\* above 0 for the other kind
C36_Witness ==
    /\ find_pc = "returned"
    /\ find_best = NoTablet
    /\ FindCandidates = tablet_map
    /\ FindCandidates # {}
    /\ \A c \in FindCandidates : FindScore(c) = 0
    /\ \E c \in FindCandidates :
          find_tablets[c].base_compaction_score
              + find_tablets[c].cumulative_compaction_score > 0

(***************************************************************************)
(* perform_cumulative_compaction / perform_base_compaction on one tablet,  *)
(* with the request metrics                                                *)
(***************************************************************************)
\* scheduler threads calling perform_*_compaction
PerformThreads == { "pt1", "pt2" }

\* no result handled yet
NoResult == [type |-> None, stage |-> None, res |-> None, at |-> 0]

NoDone == [type |-> None, stage |-> None, res |-> None, at |-> 0,
           time_before |-> 0, failed_before |-> 0]

NoPick == [type |-> None, at |-> 0, skipped |-> FALSE, write |-> NoResult]

PerformInit ==
    /\ unix_millis = StartMillis
    /\ tablet_failure_time = 0
    /\ kind_lock = [k \in CompactionTypes |-> None]
    /\ request_total = [k \in CompactionTypes |-> 0]
    /\ request_failed = [k \in CompactionTypes |-> 0]
    /\ perform_pc = [th \in PerformThreads |-> "idle"]
    /\ perform_type = [th \in PerformThreads |-> CUMULATIVE_COMPACTION]
    /\ perform_calls = 0
    /\ last_pick = NoPick
    /\ last_done = NoDone
    /\ last_write = NoResult

PerformQuiet ==
    /\ unix_millis = StartMillis
    /\ tablet_failure_time = 0
    /\ kind_lock = << >>
    /\ request_total = << >>
    /\ request_failed = << >>
    /\ perform_pc = << >>
    /\ perform_type = << >>
    /\ perform_calls = 0
    /\ last_pick = << >>
    /\ last_done = << >>
    /\ last_write = << >>

\* the clock advances
PerformTick ==
    /\ unix_millis < StartMillis + MaxClock * TickMillis
    /\ unix_millis' = unix_millis + TickMillis
    /\ UNCHANGED << tablet_failure_time, kind_lock, request_total, request_failed,
                    perform_pc, perform_type, perform_calls, last_pick,
                    last_done, last_write >>
    /\ UNCHANGED nonPerformVars

\* a failure time kept per kind: a selection sees only what its own kind wrote
FailureTimeSeenBy_OwnKind(type) ==
    IF last_write.type = type THEN tablet_failure_time ELSE 0

\* table_ptr->last_compaction_failure_time() as a selection of either kind
\* reads it
FailureTimeSeenBy(type) == tablet_failure_time

\* _find_best_tablet_to_compaction(type) over the tablet: the tests before the
\* backoff test, the backoff test, the try-lock, the score; a nullptr makes
\* perform_*_compaction return
PerformFindBest(th) ==
    /\ perform_pc[th] = "idle"
    /\ perform_calls < MaxCalls
    /\ perform_calls' = perform_calls + 1
    /\ \E type \in CompactionTypes, candidate \in BOOLEAN, scored \in BOOLEAN :
         /\ perform_type' = [perform_type EXCEPT ![th] = type]
         /\ IF ~candidate
            THEN UNCHANGED << last_pick, perform_pc >>
            ELSE LET skipped == InBackoff(unix_millis, FailureTimeSeenBy(type)) IN
                 /\ last_pick' = [type |-> type, at |-> unix_millis,
                                  skipped |-> skipped, write |-> last_write]
                 /\ perform_pc' =
                       IF ~skipped /\ kind_lock[type] = None /\ scored
                       THEN [perform_pc EXCEPT ![th] = "init"]
                       ELSE perform_pc
    /\ UNCHANGED << unix_millis, tablet_failure_time, kind_lock, request_total,
                    request_failed, last_done, last_write >>
    /\ UNCHANGED nonPerformVars

\* what init() may return on the tablet
PerformInitOutcomes(type) ==
    IF kind_lock[type] # None
    THEN { TryLockError(type) }
    ELSE { OLAP_SUCCESS, NoSuitableVersion(type), OtherCompactionError(type) }

InitFailureCounted_WheneverArmed(type, res) == InitFailureArmsBackoff(type, res)

\* whether a failed init() increments *_compaction_request_failed
InitFailureCounted(type, res) ==
    IF type = CUMULATIVE_COMPACTION
    THEN /\ InitFailureArmsBackoff(type, res)
         /\ res # "OLAP_ERR_CUMULATIVE_NO_SUITABLE_VERSIONS"
    ELSE InitFailureArmsBackoff(type, res)

\* request_total.increment(1); compaction.init(best_tablet) and the handling
\* of its result
PerformInitCompaction(th) ==
    /\ perform_pc[th] = "init"
    /\ LET type == perform_type[th] IN
       /\ request_total' = [request_total EXCEPT ![type] = @ + 1]
       /\ \E res \in PerformInitOutcomes(type) :
            LET armed == InitFailed(res) /\ InitFailureArmsBackoff(type, res)
                counted == InitFailed(res) /\ InitFailureCounted(type, res)
                result == [type |-> type, stage |-> "init", res |-> res,
                           at |-> unix_millis]
            IN
            /\ tablet_failure_time' = IF armed THEN unix_millis ELSE tablet_failure_time
            /\ request_failed' = IF counted
                                 THEN [request_failed EXCEPT ![type] = @ + 1]
                                 ELSE request_failed
            /\ last_write' = IF armed THEN result ELSE last_write
            /\ last_done' = [type |-> type, stage |-> "init", res |-> res,
                             at |-> unix_millis, time_before |-> tablet_failure_time,
                             failed_before |-> request_failed[type]]
            /\ IF InitFailed(res)
               THEN /\ perform_pc' = [perform_pc EXCEPT ![th] = "idle"]
                    /\ UNCHANGED kind_lock
               ELSE /\ perform_pc' = [perform_pc EXCEPT ![th] = "run"]
                    /\ kind_lock' = [kind_lock EXCEPT ![type] = th]
    /\ UNCHANGED << unix_millis, perform_type, perform_calls, last_pick >>
    /\ UNCHANGED nonPerformVars

FailureTimeAfterRun_NeverReset(res) ==
    IF res # OLAP_SUCCESS THEN unix_millis ELSE tablet_failure_time

\* set_last_compaction_failure_time(UnixMillis()) after a failed run(),
\* set_last_compaction_failure_time(0) after a successful one
FailureTimeAfterRun(res) == IF res # OLAP_SUCCESS THEN unix_millis ELSE 0

\* compaction.run() and the handling of its result; the compaction object
\* releases the lock when it goes out of scope
PerformRun(th) ==
    /\ perform_pc[th] = "run"
    /\ LET type == perform_type[th] IN
       \E res \in { OLAP_SUCCESS, OtherCompactionError(type) } :
         LET result == [type |-> type, stage |-> "run", res |-> res,
                        at |-> unix_millis]
         IN
         /\ tablet_failure_time' = FailureTimeAfterRun(res)
         /\ request_failed' = IF res # OLAP_SUCCESS
                              THEN [request_failed EXCEPT ![type] = @ + 1]
                              ELSE request_failed
         /\ last_write' = result
         /\ last_done' = [type |-> type, stage |-> "run", res |-> res,
                          at |-> unix_millis, time_before |-> tablet_failure_time,
                          failed_before |-> request_failed[type]]
         /\ kind_lock' = [kind_lock EXCEPT ![type] = None]
    /\ perform_pc' = [perform_pc EXCEPT ![th] = "idle"]
    /\ UNCHANGED << unix_millis, request_total, perform_type, perform_calls,
                    last_pick >>
    /\ UNCHANGED nonPerformVars

PerformNext ==
    \/ PerformTick
    \/ \E th \in PerformThreads : PerformFindBest(th)
    \/ \E th \in PerformThreads : PerformInitCompaction(th)
    \/ \E th \in PerformThreads : PerformRun(th)

\* the result handled last was lock contention or "no eligible version"
SilentAsStated(d) ==
    d.stage = "init" /\ d.res \in { TryLockError(d.type), NoSuitableVersion(d.type) }

\* the result handled last leaves the failure time and the failure counter
Untouched(d) ==
    /\ tablet_failure_time = d.time_before
    /\ request_failed[d.type] = d.failed_before

\* the result handled last set the failure time to now and counted once
TimedAndCounted(d) ==
    /\ tablet_failure_time = d.at
    /\ request_failed[d.type] = d.failed_before + 1

C23_BackoffArmedAndReset ==
    /\ last_write.type # None =>
          tablet_failure_time =
              IF last_write.res = OLAP_SUCCESS THEN 0 ELSE last_write.at
    /\ LET p == last_pick
           w == last_pick.write
       IN (p.type # None /\ w.type # None) =>
              /\ w.res = OLAP_SUCCESS => (w.stage = "run" /\ ~p.skipped)
              /\ (w.res # OLAP_SUCCESS
                  /\ p.at - w.at <= min_compaction_failure_interval_sec * 1000) =>
                      p.skipped
              /\ (w.res # OLAP_SUCCESS
                  /\ p.at - w.at > min_compaction_failure_interval_sec * 1000) =>
                      ~p.skipped

\* a run failed, the tablet was selected again once the interval had passed,
\* that run succeeded, and a selection at the same clock value did not
\* exclude the tablet
C23_Witness ==
    /\ last_pick.type # None
    /\ last_pick.write.stage = "run"
    /\ last_pick.write.res = OLAP_SUCCESS
    /\ last_pick.at = last_pick.write.at
    /\ ~last_pick.skipped
    /\ tablet_failure_time = 0
    /\ \E k \in CompactionTypes : request_failed[k] = 1

\* a selection of one kind made while the failure of the other kind that
\* wrote the failure time last is within the backoff interval
CrossKindBackoff(p) ==
    /\ p.type # None /\ p.write.type # None
    /\ p.write.type # p.type
    /\ p.write.res # OLAP_SUCCESS
    /\ p.at - p.write.at <= min_compaction_failure_interval_sec * 1000

\* a run of one kind succeeds while the failure time is that of a failure of
\* the other kind
CrossKindSuccess ==
    /\ last_done' # last_done
    /\ last_done'.stage = "run" /\ last_done'.res = OLAP_SUCCESS
    /\ last_write.type # None
    /\ last_write.type # last_done'.type
    /\ last_write.res # OLAP_SUCCESS

\* C37: the tablet has one last_compaction_failure_time for both kinds: a
\* selection of one kind excludes the tablet while a failure of the other
\* kind is within the backoff interval, and a successful run of one kind
\* sets to 0 the failure time a failure of the other kind had written.
C37_BackoffSharedByKinds ==
    /\ [](CrossKindBackoff(last_pick) => last_pick.skipped)
    /\ [][CrossKindSuccess =>
            /\ tablet_failure_time = last_write.at
            /\ tablet_failure_time' = 0]_vars

\* a cumulative run failed, a base selection within the interval excluded
\* the tablet, and then a base run that was under way succeeded and set the
\* failure time to 0
C37_Witness ==
    /\ CrossKindBackoff(last_pick)
    /\ last_pick.skipped
    /\ last_pick.type = BASE_COMPACTION
    /\ last_done.type = BASE_COMPACTION
    /\ last_done.stage = "run" /\ last_done.res = OLAP_SUCCESS
    /\ last_done.time_before = last_pick.write.at
    /\ tablet_failure_time = 0

(***************************************************************************)
(* Garbage collector of retired artifacts                                  *)
(***************************************************************************)
\* the retired SegmentGroup objects, in the order of the map's keys
SegmentGroups == 1..MaxArtifacts

\* the ids of the retired rowsets, in the order of the map's keys
RowsetIds == { 1, 2 }

\* num_segments() of a segment group: groups of one and of two segments
num_segments(sg) == 1 + (sg % 2)

\* end(): the iterator past the last key
ItEnd == 0

\* an iterator invalidated by erase()
ItDangling == -1

\* construct_index_file_path(seg_id), construct_data_file_path(seg_id)
IndexFilePath(sg, seg_id) == << sg, seg_id, "idx" >>
DataFilePath(sg, seg_id) == << sg, seg_id, "dat" >>

\* the vector add_unused_index builds: for each seg_id the index file, then
\* the data file
FilesOfSegments(sg, n) ==
    [i \in 1..(2 * n) |->
        IF i % 2 = 1 THEN IndexFilePath(sg, (i - 1) \div 2)
                     ELSE DataFilePath(sg, (i - 1) \div 2)]

\* every file the segment groups own
AllSegmentFiles ==
    { IndexFilePath(sg, seg) : sg \in SegmentGroups, seg \in 0..1 }
        \cup { DataFilePath(sg, seg) : sg \in SegmentGroups, seg \in 0..1 }

\* the key after k in a map with keys S (ItEnd: none)
KeyAfter(S, k) ==
    IF \E x \in S : x > k
    THEN CHOOSE x \in S : x > k /\ \A y \in S : y > k => x <= y
    ELSE ItEnd

GCInit ==
    /\ gc_mutex = None
    /\ gc_files = << >>
    /\ unused_rowsets = {}
    /\ index_in_use = [sg \in SegmentGroups |-> TRUE]
    /\ rowset_in_use = [r \in RowsetIds |-> TRUE]
    /\ deleted_groups = {}
    /\ fs_files = AllSegmentFiles
    /\ remove_calls = [r \in RowsetIds |-> 0]
    /\ gc_pc = "idle"
    /\ gc_it = ItEnd
    /\ gc_stale = ItEnd
    /\ sweep_tracked = {}
    /\ sweep_idle = {}
    /\ kept_in_use = {}
    /\ found_idle = {}
    /\ sweep_removed = << >>

\* the collector's variables when it does not run
GCQuiet ==
    /\ gc_mutex = None
    /\ gc_files = << >>
    /\ unused_rowsets = {}
    /\ index_in_use = << >>
    /\ rowset_in_use = << >>
    /\ deleted_groups = {}
    /\ fs_files = {}
    /\ remove_calls = << >>
    /\ gc_pc = "idle"
    /\ gc_it = ItEnd
    /\ gc_stale = ItEnd
    /\ sweep_tracked = {}
    /\ sweep_idle = {}
    /\ kept_in_use = {}
    /\ found_idle = {}
    /\ sweep_removed = << >>

\* the last reference to a retired segment group / rowset is dropped
ReleaseIndex(sg) ==
    /\ index_in_use[sg]
    /\ index_in_use' = [index_in_use EXCEPT ![sg] = FALSE]
    /\ UNCHANGED << gc_mutex, gc_files, unused_rowsets, rowset_in_use,
                    deleted_groups, fs_files, remove_calls, gc_pc, gc_it, gc_stale,
                    sweep_tracked, sweep_idle, kept_in_use, found_idle, sweep_removed >>
    /\ UNCHANGED nonGCVars

ReleaseRowset(r) ==
    /\ rowset_in_use[r]
    /\ rowset_in_use' = [rowset_in_use EXCEPT ![r] = FALSE]
    /\ UNCHANGED << gc_mutex, gc_files, unused_rowsets, index_in_use,
                    deleted_groups, fs_files, remove_calls, gc_pc, gc_it, gc_stale,
                    sweep_tracked, sweep_idle, kept_in_use, found_idle, sweep_removed >>
    /\ UNCHANGED nonGCVars

GcMutexFree_Always == TRUE

\* _gc_mutex.lock() returns: no other holder
GcMutexFree == gc_mutex = None

\* _gc_files after add_unused_index(segment_group): find(), and for a key
\* not found the index and data file paths of every segment
WithUnusedIndex(files, sg) ==
    IF sg \notin DOMAIN files
    THEN [x \in DOMAIN files \cup { sg } |->
             IF x = sg THEN FilesOfSegments(sg, num_segments(sg)) ELSE files[x]]
    ELSE files

WithUnusedRowset_LastWins(rowsets, rowset) ==
    [x \in DOMAIN rowsets \cup { rowset.rowset_id } |->
        IF x = rowset.rowset_id THEN rowset.object ELSE rowsets[x]]

\* _unused_rowsets after add_unused_rowset(rowset): find(), and for an id not
\* found the rowset
WithUnusedRowset(rowsets, rowset) ==
    IF rowset.rowset_id \notin DOMAIN rowsets
    THEN [x \in DOMAIN rowsets \cup { rowset.rowset_id } |->
             IF x = rowset.rowset_id THEN rowset.object ELSE rowsets[x]]
    ELSE rowsets

\* add_unused_index(segment_group), under _gc_mutex
AddUnusedIndex(sg) ==
    /\ GcMutexFree
    /\ sg \notin deleted_groups
    /\ gc_files' = WithUnusedIndex(gc_files, sg)
    /\ UNCHANGED << gc_mutex, unused_rowsets, index_in_use,
                    rowset_in_use, deleted_groups, fs_files, remove_calls, gc_pc,
                    gc_it, gc_stale, sweep_tracked, sweep_idle, kept_in_use,
                    found_idle, sweep_removed >>
    /\ UNCHANGED nonGCVars

\* add_unused_rowset(rowset), under _gc_mutex
AddUnusedRowset(r) ==
    /\ GcMutexFree
    /\ remove_calls[r] = 0
    /\ unused_rowsets' = unused_rowsets \cup { r }
    /\ UNCHANGED << gc_mutex, gc_files, index_in_use, rowset_in_use,
                    deleted_groups, fs_files, remove_calls, gc_pc, gc_it, gc_stale,
                    sweep_tracked, sweep_idle, kept_in_use, found_idle, sweep_removed >>
    /\ UNCHANGED nonGCVars

\* a sweep locks _gc_mutex and takes begin()
BeginSweep(kind, keys, idle) ==
    /\ gc_pc \in { "idle", "index_returned", "rowset_returned" }
    /\ GcMutexFree
    /\ gc_mutex' = "collector"
    /\ gc_pc' = kind
    /\ gc_it' = KeyAfter(keys, ItEnd)
    /\ gc_stale' = ItEnd
    /\ sweep_tracked' = keys
    /\ sweep_idle' = idle
    /\ kept_in_use' = {}
    /\ found_idle' = {}
    /\ sweep_removed' = << >>

\* the loop ended: _gc_mutex.unlock(), return
EndSweep(kind) ==
    /\ gc_pc = kind
    /\ gc_it = ItEnd
    /\ gc_mutex' = None
    /\ gc_pc' = IF kind = "index" THEN "index_returned" ELSE "rowset_returned"

\* start_delete_unused_index: entry
BeginDeleteUnusedIndex ==
    /\ BeginSweep("index", DOMAIN gc_files,
                  { sg \in DOMAIN gc_files : ~index_in_use[sg] })
    /\ UNCHANGED << gc_files, unused_rowsets, index_in_use,
                    rowset_in_use, deleted_groups, fs_files, remove_calls >>
    /\ UNCHANGED nonGCVars

IndexKept_Never(in_use) == FALSE

\* if (it->first->is_in_use()) ++it;
IndexKept(in_use) == in_use

IndexIteratorAfterErase_SkipsOne(keys, k) == KeyAfter(keys, KeyAfter(keys, k))

\* it = _gc_files.erase(it): the iterator erase() returns
IndexIteratorAfterErase(keys, k) ==
    IF k = ItEnd THEN ItEnd ELSE KeyAfter(keys, k)

\* start_delete_unused_index: one iteration of the loop
StepDeleteUnusedIndex ==
    /\ gc_pc = "index"
    /\ gc_it # ItEnd
    /\ LET sg == gc_it IN
         IF IndexKept(index_in_use[sg])
         THEN /\ gc_it' = KeyAfter(DOMAIN gc_files, sg)
              /\ kept_in_use' = kept_in_use \cup { sg }
              /\ UNCHANGED << gc_files, deleted_groups, fs_files, found_idle,
                              sweep_removed >>
         ELSE /\ deleted_groups' = deleted_groups \cup { sg }
              /\ fs_files' = fs_files \ Range(gc_files[sg])
              /\ sweep_removed' = sweep_removed \o gc_files[sg]
              /\ gc_files' = [x \in DOMAIN gc_files \ { sg } |-> gc_files[x]]
              /\ gc_it' = IndexIteratorAfterErase(DOMAIN gc_files \ { sg }, sg)
              /\ found_idle' = found_idle \cup { sg }
              /\ UNCHANGED kept_in_use
    /\ UNCHANGED << gc_mutex, unused_rowsets, index_in_use,
                    rowset_in_use, remove_calls, gc_pc, gc_stale, sweep_tracked,
                    sweep_idle >>
    /\ UNCHANGED nonGCVars

\* start_delete_unused_index: exit
EndDeleteUnusedIndex ==
    /\ EndSweep("index")
    /\ UNCHANGED << gc_files, unused_rowsets, index_in_use,
                    rowset_in_use, deleted_groups, fs_files, remove_calls, gc_it,
                    gc_stale, sweep_tracked, sweep_idle, kept_in_use, found_idle,
                    sweep_removed >>
    /\ UNCHANGED nonGCVars

\* start_delete_unused_rowset: entry
BeginDeleteUnusedRowset ==
    /\ BeginSweep("rowset", unused_rowsets,
                  { r \in unused_rowsets : ~rowset_in_use[r] })
    /\ UNCHANGED << gc_files, unused_rowsets, index_in_use,
                    rowset_in_use, deleted_groups, fs_files, remove_calls >>
    /\ UNCHANGED nonGCVars

\* if (it->second->in_use()) ++it;
RowsetKept(in_use) == in_use

\* _unused_rowsets.erase(it): the result is dropped and it stays on the
\* erased node
RowsetIteratorAfterErase(keys, k) == ItDangling

\* start_delete_unused_rowset: one iteration of the loop on a valid iterator
StepDeleteUnusedRowset ==
    /\ gc_pc = "rowset"
    /\ gc_it \notin { ItEnd, ItDangling }
    /\ LET r == gc_it IN
         IF RowsetKept(rowset_in_use[r])
         THEN /\ gc_it' = KeyAfter(unused_rowsets, r)
              /\ kept_in_use' = kept_in_use \cup { r }
              /\ UNCHANGED << unused_rowsets, remove_calls, found_idle, gc_stale >>
         ELSE /\ remove_calls' = [remove_calls EXCEPT ![r] = @ + 1]
              /\ unused_rowsets' = unused_rowsets \ { r }
              /\ gc_it' = RowsetIteratorAfterErase(unused_rowsets \ { r }, r)
              /\ gc_stale' = r
              /\ found_idle' = found_idle \cup { r }
              /\ UNCHANGED kept_in_use
    /\ UNCHANGED << gc_mutex, gc_files, index_in_use, rowset_in_use,
                    deleted_groups, fs_files, gc_pc, sweep_tracked, sweep_idle,
                    sweep_removed >>
    /\ UNCHANGED nonGCVars

\* start_delete_unused_rowset: the loop goes on with the invalidated
\* iterator, which is undefined: the process may die; the stale node may
\* read as any position of the map or as end(); or it may read as the
\* erased entry again, whose rowset is then removed a second time
StepOnInvalidIterator ==
    /\ gc_pc = "rowset"
    /\ gc_it = ItDangling
    /\ \/ /\ gc_pc' = "crashed"
          /\ UNCHANGED << gc_it, remove_calls >>
       \/ /\ gc_it' \in unused_rowsets \cup { ItEnd }
          /\ UNCHANGED << gc_pc, remove_calls >>
       \/ /\ remove_calls[gc_stale] < 2
          /\ remove_calls' = [remove_calls EXCEPT ![gc_stale] = @ + 1]
          /\ UNCHANGED << gc_pc, gc_it >>
    /\ UNCHANGED << gc_mutex, gc_files, unused_rowsets, index_in_use,
                    rowset_in_use, deleted_groups, fs_files, gc_stale, sweep_tracked,
                    sweep_idle, kept_in_use, found_idle, sweep_removed >>
    /\ UNCHANGED nonGCVars

\* start_delete_unused_rowset: exit
EndDeleteUnusedRowset ==
    /\ EndSweep("rowset")
    /\ UNCHANGED << gc_files, unused_rowsets, index_in_use,
                    rowset_in_use, deleted_groups, fs_files, remove_calls, gc_it,
                    gc_stale, sweep_tracked, sweep_idle, kept_in_use, found_idle,
                    sweep_removed >>
    /\ UNCHANGED nonGCVars

GCNext ==
    \/ \E sg \in SegmentGroups : ReleaseIndex(sg) \/ AddUnusedIndex(sg)
    \/ \E r \in RowsetIds : ReleaseRowset(r) \/ AddUnusedRowset(r)
    \/ BeginDeleteUnusedIndex
    \/ StepDeleteUnusedIndex
    \/ EndDeleteUnusedIndex
    \/ BeginDeleteUnusedRowset
    \/ StepDeleteUnusedRowset
    \/ StepOnInvalidIterator
    \/ EndDeleteUnusedRowset

DirectoryQuiet ==
    /\ tablet_map = {}
    /\ header_lock = << >>

\* the files a segment group owns: an index file and a data file per segment
OwnedFiles(sg) ==
    UNION { { IndexFilePath(sg, seg), DataFilePath(sg, seg) } :
               seg \in 0..(num_segments(sg) - 1) }

InIndexSweep == gc_pc \in { "index", "index_returned" }

InRowsetSweep == gc_pc \in { "rowset", "rowset_returned", "crashed" }

\* what no step may do to a tracked artifact that is in use when the step
\* is taken: drop it from its registry, delete it, or delete its files
InUseArtifactsSurvive ==
    /\ \A sg \in DOMAIN gc_files :
          index_in_use[sg] =>
              /\ sg \in DOMAIN gc_files'
              /\ gc_files'[sg] = gc_files[sg]
              /\ sg \notin deleted_groups'
              /\ OwnedFiles(sg) \cap fs_files \subseteq fs_files'
    /\ \A r \in unused_rowsets :
          rowset_in_use[r] =>
              /\ r \in unused_rowsets'
              /\ remove_calls'[r] = remove_calls[r]

\* C7: an artifact that reports in-use when a sweep examines it is not
\* removed from its registry by that examination, and neither its files nor
\* the artifact are deleted; it stays tracked for the next sweep. This holds
\* for the index registry and for the rowset registry.
C7_InUseArtifactsAreKept == [][InUseArtifactsSurvive]_vars

\* an index sweep returned after it kept one group and reclaimed another
C7_Witness ==
    /\ gc_pc = "index_returned"
    /\ kept_in_use # {}
    /\ found_idle # {}

\* C8: when start_delete_unused_index returns, every index artifact that
\* was tracked at the start of the sweep and was, or reported, not in use
\* is out of the registry and deleted, and the files removed by the sweep
\* are exactly the recorded lists of those artifacts (an index and a data
\* file per segment); so an artifact that is not in use is reclaimed by the
\* very next sweep.
C8_IdleIndexIsReclaimed ==
    gc_pc = "index_returned" =>
        /\ sweep_idle \subseteq found_idle
        /\ kept_in_use \cup found_idle = sweep_tracked
        /\ \A sg \in found_idle :
              /\ sg \notin DOMAIN gc_files
              /\ sg \in deleted_groups
              /\ OwnedFiles(sg) \cap fs_files = {}
        /\ Range(sweep_removed) = UNION { OwnedFiles(sg) : sg \in found_idle }
        /\ Len(sweep_removed) = Cardinality(Range(sweep_removed))

\* an index sweep returned after reclaiming two groups, one of two segments
C8_Witness ==
    /\ gc_pc = "index_returned"
    /\ Cardinality(found_idle) = 2
    /\ \E sg \in found_idle : num_segments(sg) = 2

\* C9 (the claim as stated): when start_delete_unused_rowset returns, every
\* rowset that was tracked at the start and not in use has had remove()
\* called exactly once and is out of the registry, and the traversal never
\* leaves the map.
C9_IdleRowsetIsRemovedOnce ==
    /\ gc_pc # "crashed"
    /\ \A r \in RowsetIds : remove_calls[r] <= 1
    /\ gc_pc = "rowset_returned" =>
          \A r \in sweep_idle :
              /\ remove_calls[r] = 1
              /\ r \notin unused_rowsets

\* what every step does to the registries and the locks
MutexGuardsRegistries ==
    \* a sweep is inside its loop only with the mutex held
    /\ gc_pc \in { "index", "rowset" } => gc_mutex = "collector"
    \* while the sweep holds the mutex no add lands
    /\ (gc_mutex = "collector" /\ gc_mutex' = "collector") =>
          /\ DOMAIN gc_files' \subseteq DOMAIN gc_files
          /\ unused_rowsets' \subseteq unused_rowsets
    \* an entry leaves a registry only by the sweep holding the mutex, and
    \* only the entry of an artifact not in use, which is reclaimed
    /\ \A sg \in DOMAIN gc_files \ DOMAIN gc_files' :
          /\ gc_mutex = "collector" /\ gc_pc = "index"
          /\ ~index_in_use[sg]
          /\ sg \in deleted_groups'
    /\ \A r \in unused_rowsets \ unused_rowsets' :
          /\ gc_mutex = "collector" /\ gc_pc = "rowset"
          /\ ~rowset_in_use[r]
          /\ remove_calls'[r] = remove_calls[r] + 1
    \* an entry that stays keeps its recorded files
    /\ \A sg \in DOMAIN gc_files \cap DOMAIN gc_files' :
          gc_files'[sg] = gc_files[sg]
    \* no step of an add or of a sweep takes a header, compaction or
    \* directory lock
    /\ UNCHANGED << header_lock, compaction_lock, tablet_map >>

\* C25: the registries are read and written only under _gc_mutex: a sweep is
\* in its loop only while it holds the mutex; while it holds it no add
\* changes a registry; no add or sweep takes a tablet header, compaction or
\* directory lock; so an added artifact stays tracked, with its recorded
\* files, until a sweep that holds the mutex finds it not in use and
\* reclaims it.
C25_RegistriesUnderGcMutex == [][MutexGuardsRegistries]_vars

\* an index sweep reclaimed a group and returned, and a group added after
\* it released the mutex is tracked
C25_Witness ==
    /\ gc_pc = "index_returned"
    /\ gc_mutex = None
    /\ deleted_groups # {}
    /\ \E sg \in DOMAIN gc_files : sg \notin sweep_tracked

(***************************************************************************)
(* add_unused_index / add_unused_rowset as functions of the registries     *)
(***************************************************************************)
\* rowset objects: two objects may carry one rowset id
Rowsets == { [rowset_id |-> r, object |-> o] : r \in RowsetIds, o \in { "rs_a", "rs_b" } }

NoAdd == [op |-> None, key |-> 0, object |-> None, gc_files |-> << >>,
          unused_rowsets |-> << >>]

RegistryInit ==
    /\ reg_gc_files = << >>
    /\ reg_unused_rowsets = << >>
    /\ reg_last = NoAdd

RegistryQuiet ==
    /\ reg_gc_files = << >>
    /\ reg_unused_rowsets = << >>
    /\ reg_last = << >>

\* add_unused_index(segment_group)
RegistryAddIndex(sg) ==
    /\ reg_gc_files' = WithUnusedIndex(reg_gc_files, sg)
    /\ reg_last' = [op |-> "add_unused_index", key |-> sg, object |-> None,
                    gc_files |-> reg_gc_files,
                    unused_rowsets |-> reg_unused_rowsets]
    /\ UNCHANGED reg_unused_rowsets
    /\ UNCHANGED nonRegistryVars

\* add_unused_rowset(rowset)
RegistryAddRowset(rowset) ==
    /\ reg_unused_rowsets' = WithUnusedRowset(reg_unused_rowsets, rowset)
    /\ reg_last' = [op |-> "add_unused_rowset", key |-> rowset.rowset_id,
                    object |-> rowset.object, gc_files |-> reg_gc_files,
                    unused_rowsets |-> reg_unused_rowsets]
    /\ UNCHANGED reg_gc_files
    /\ UNCHANGED nonRegistryVars

\* a sweep found the artifact idle and erased its entry
RegistryErase ==
    /\ \/ \E sg \in DOMAIN reg_gc_files :
            /\ reg_gc_files' = [x \in DOMAIN reg_gc_files \ { sg } |-> reg_gc_files[x]]
            /\ UNCHANGED reg_unused_rowsets
       \/ \E r \in DOMAIN reg_unused_rowsets :
            /\ reg_unused_rowsets' =
                  [x \in DOMAIN reg_unused_rowsets \ { r } |-> reg_unused_rowsets[x]]
            /\ UNCHANGED reg_gc_files
    /\ reg_last' = NoAdd
    /\ UNCHANGED nonRegistryVars

RegistryNext ==
    \/ \E sg \in SegmentGroups : RegistryAddIndex(sg)
    \/ \E rowset \in Rowsets : RegistryAddRowset(rowset)
    \/ RegistryErase

\* C24: every tracked segment group has one index-file path and one
\* data-file path per segment, 2 * num_segments paths; an add of a tracked
\* segment group or of a tracked rowset id leaves both registries as they
\* were, so the rowset registered first stays; a first add registers the
\* artifact added and changes no other entry.
C24_AddIsIdempotent ==
    /\ \A sg \in DOMAIN reg_gc_files :
          /\ Len(reg_gc_files[sg]) = 2 * num_segments(sg)
          /\ \A seg \in 0..(num_segments(sg) - 1) :
                /\ reg_gc_files[sg][2 * seg + 1] = IndexFilePath(sg, seg)
                /\ reg_gc_files[sg][2 * seg + 2] = DataFilePath(sg, seg)
    /\ reg_last.op = "add_unused_index" =>
          /\ reg_unused_rowsets = reg_last.unused_rowsets
          /\ DOMAIN reg_gc_files = DOMAIN reg_last.gc_files \cup { reg_last.key }
          /\ \A sg \in DOMAIN reg_last.gc_files :
                reg_gc_files[sg] = reg_last.gc_files[sg]
    /\ reg_last.op = "add_unused_rowset" =>
          /\ reg_gc_files = reg_last.gc_files
          /\ DOMAIN reg_unused_rowsets =
                DOMAIN reg_last.unused_rowsets \cup { reg_last.key }
          /\ \A r \in DOMAIN reg_last.unused_rowsets :
                reg_unused_rowsets[r] = reg_last.unused_rowsets[r]
          /\ reg_last.key \notin DOMAIN reg_last.unused_rowsets =>
                reg_unused_rowsets[reg_last.key] = reg_last.object

\* a second rowset object was added under a tracked id and the first stayed,
\* while a segment group of two segments is tracked with four paths
C24_Witness ==
    /\ reg_last.op = "add_unused_rowset"
    /\ reg_last.key \in DOMAIN reg_last.unused_rowsets
    /\ reg_unused_rowsets[reg_last.key] # reg_last.object
    /\ \E sg \in DOMAIN reg_gc_files :
          num_segments(sg) = 2 /\ Len(reg_gc_files[sg]) = 4

(***************************************************************************)
(* Loading of a data dir                                                   *)
(***************************************************************************)
\* the tablets a volume may hold
LoadTablets == { <<3, 2>>, <<7, 1>> }

StoreRowsetIds == 1..MaxRowsetMetas

PREPARED == "PREPARED"
COMMITTED == "COMMITTED"
VISIBLE == "VISIBLE"
RowsetStates == { PREPARED, COMMITTED, VISIBLE }

PartitionIds == { 10 }
TxnIds == { 100 }

OLAP_ERR_PUSH_TRANSACTION_ALREADY_EXIST == "OLAP_ERR_PUSH_TRANSACTION_ALREADY_EXIST"
LoadError == "OLAP_ERR_OTHER_ERROR"

\* results of the store calls of _load_data_dir on the flag
OLAP_ERR_META_GET == "OLAP_ERR_META_GET"
OLAP_ERR_META_PUT == "OLAP_ERR_META_PUT"

\* a stored string rowset_meta->init() does not parse
Malformed ==
    [parsed |-> FALSE, rowset_state |-> PREPARED, tablet |-> <<3, 2>>,
     partition_id |-> 10, txn_id |-> 100]

ParsedMetas ==
    [parsed : { TRUE }, rowset_state : RowsetStates, tablet : LoadTablets,
     partition_id : PartitionIds, txn_id : TxnIds]

MetaValues == { Malformed } \cup ParsedMetas

\* the rowset meta to_new_snapshot makes of the pending delta of a header
PendingRowsetId(t) == IF t = <<3, 2>> THEN 1 ELSE 2

PendingRowsetMeta(t) ==
    [parsed |-> TRUE, rowset_state |-> COMMITTED, tablet |-> t,
     partition_id |-> 10, txn_id |-> 100]

\* the keys of a store in the order a traversal visits them
RECURSIVE Ascending(_)
Ascending(S) ==
    IF S = {} THEN << >>
    ELSE LET m == CHOOSE x \in S : \A y \in S : x <= y
         IN << m >> \o Ascending(S \ { m })

\* what a loading volume's variables are before the load has produced
\* anything
NoPrevLoad ==
    [valid |-> FALSE, collected |-> << >>, loaded |-> {}, log |-> << >>,
     rowsets |-> [t \in LoadTablets |-> {}], txns |-> {}]

LoadFresh ==
    /\ dir_rowset_metas = << >>
    /\ load_res = None
    /\ reconcile_pos = 1
    /\ txn_map = {}
    /\ tablet_rowsets = [t \in LoadTablets |-> {}]
    /\ reconcile_log = << >>
    /\ warned = {}
    /\ load_round = 1
    /\ start_flag = convert_finished
    /\ legacy_ran = FALSE
    /\ prev_load = NoPrevLoad

LoadInit ==
    /\ convert_finished \in BOOLEAN
    /\ IF convert_finished
       THEN /\ old_headers = {}
            /\ old_pending = {}
            /\ tablet_metas \in SUBSET LoadTablets
            /\ rowset_metas \in [StoreRowsetIds -> MetaValues]
       ELSE /\ old_headers \in SUBSET LoadTablets
            /\ old_pending \in SUBSET old_headers
            /\ tablet_metas \in SUBSET LoadTablets
            /\ rowset_metas = << >>
    /\ load_pc = "start"
    /\ LoadFresh

\* no volume is being loaded
LoadQuiet ==
    /\ convert_finished = TRUE
    /\ old_headers = {}
    /\ old_pending = {}
    /\ tablet_metas = {}
    /\ rowset_metas = << >>
    /\ load_pc = "returned"
    /\ dir_rowset_metas = << >>
    /\ load_res = None
    /\ reconcile_pos = 1
    /\ txn_map = {}
    /\ tablet_rowsets = << >>
    /\ reconcile_log = << >>
    /\ warned = {}
    /\ load_round = 1
    /\ start_flag = TRUE
    /\ legacy_ran = FALSE
    /\ prev_load = << >>

LoadReturns(res) ==
    /\ load_pc' = "returned"
    /\ load_res' = res

\* get_tablet_convert_finished, and the branch on the flag
NeedsConversion_Always(is_tablet_convert_finished) == TRUE

NeedsConversion_WhenFinished(is_tablet_convert_finished) == is_tablet_convert_finished

\* if (!is_tablet_convert_finished)
NeedsConversion(is_tablet_convert_finished) == ~is_tablet_convert_finished

GetConvertFlag ==
    /\ load_pc = "start"
    /\ \E ok \in BOOLEAN :
          IF ok
          THEN /\ load_pc' = IF NeedsConversion(convert_finished)
                              THEN "clean" ELSE "load_rowset_metas"
               /\ UNCHANGED load_res
          ELSE LoadReturns(OLAP_ERR_META_GET)
    /\ UNCHANGED reloadVars
    /\ UNCHANGED << tablet_map, convert_finished, old_headers, old_pending,
                    tablet_metas, rowset_metas, dir_rowset_metas, reconcile_pos,
                    txn_map, tablet_rowsets, reconcile_log, warned >>
    /\ UNCHANGED nonLoadVars

\* _clean_unfinished_converting_data: both traversals remove what they
\* visit; a failed traversal is logged and leaves its metas behind
CleanUnfinishedConvertingData ==
    /\ load_pc = "clean"
    /\ \E tablets_ok \in BOOLEAN, rowsets_ok \in BOOLEAN :
          /\ tablet_metas' = IF tablets_ok THEN {} ELSE tablet_metas
          /\ rowset_metas' = IF rowsets_ok THEN << >> ELSE rowset_metas
    /\ load_pc' = "convert"
    /\ legacy_ran' = TRUE
    /\ UNCHANGED << load_round, start_flag, prev_load >>
    /\ UNCHANGED << tablet_map, convert_finished, old_headers, old_pending,
                    dir_rowset_metas, load_res, reconcile_pos, txn_map,
                    tablet_rowsets, reconcile_log, warned >>
    /\ UNCHANGED nonLoadVars

\* the store after the headers in done were converted: their pending
\* rowset metas and their tablet metas are saved
SaveConverted(metas, done) ==
    LET ids == { PendingRowsetId(t) : t \in done \cap old_pending } IN
    [id \in DOMAIN metas \cup ids |->
        IF id \in ids
        THEN PendingRowsetMeta(CHOOSE t \in done \cap old_pending : PendingRowsetId(t) = id)
        ELSE metas[id]]

\* _convert_old_tablet: the traversal converts the old headers in order
\* and stops at the first that fails
ConvertOldTablet ==
    /\ load_pc = "convert"
    /\ \E n \in 0..Cardinality(old_headers) :
          LET order == Ascending({ PendingRowsetId(t) : t \in old_headers })
              done == { t \in old_headers :
                           \E i \in 1..n : order[i] = PendingRowsetId(t) }
          IN /\ rowset_metas' = SaveConverted(rowset_metas, done)
             /\ tablet_metas' = tablet_metas \cup done
             /\ IF n = Cardinality(old_headers)
                THEN /\ load_pc' = "set_flag"
                     /\ UNCHANGED load_res
                ELSE LoadReturns(LoadError)
    /\ legacy_ran' = TRUE
    /\ UNCHANGED << load_round, start_flag, prev_load >>
    /\ UNCHANGED << tablet_map, convert_finished, old_headers, old_pending,
                    dir_rowset_metas, reconcile_pos, txn_map, tablet_rowsets,
                    reconcile_log, warned >>
    /\ UNCHANGED nonLoadVars

\* set_tablet_convert_finished
SetConvertFinished ==
    /\ load_pc = "set_flag"
    /\ \E ok \in BOOLEAN :
          IF ok
          THEN /\ convert_finished' = TRUE
               /\ load_pc' = "load_rowset_metas"
               /\ UNCHANGED load_res
          ELSE /\ LoadReturns(OLAP_ERR_META_PUT)
               /\ UNCHANGED convert_finished
    /\ UNCHANGED reloadVars
    /\ UNCHANGED << tablet_map, old_headers, old_pending, tablet_metas,
                    rowset_metas, dir_rowset_metas, reconcile_pos, txn_map,
                    tablet_rowsets, reconcile_log, warned >>
    /\ UNCHANGED nonLoadVars

\* load_rowset_func over the first n stored metas: a meta that does not
\* parse is skipped, the others are pushed back
CollectParsed(n) ==
    SelectSeq(SubSeq(Ascending(DOMAIN rowset_metas), 1, n),
              LAMBDA id : rowset_metas[id].parsed)

\* traverse_rowset_metas: a failed traversal is logged only
LoadRowsetMetas ==
    /\ load_pc = "load_rowset_metas"
    /\ \E n \in 0..Cardinality(DOMAIN rowset_metas) :
          dir_rowset_metas' = CollectParsed(n)
    /\ prev_load.valid => dir_rowset_metas' = prev_load.collected
    /\ load_pc' = "load_tablets"
    /\ UNCHANGED reloadVars
    /\ UNCHANGED << tablet_map, convert_finished, old_headers, old_pending,
                    tablet_metas, rowset_metas, load_res, reconcile_pos, txn_map,
                    tablet_rowsets, reconcile_log, warned >>
    /\ UNCHANGED nonLoadVars

\* traverse_headers with load_tablet_func: every tablet meta whose
\* load_tablet_from_meta succeeds is registered; failures are logged only
LoadTabletsFromMeta ==
    /\ load_pc = "load_tablets"
    /\ \E loaded \in SUBSET tablet_metas :
          /\ prev_load.valid => loaded = prev_load.loaded
          /\ tablet_map' = tablet_map \cup loaded
    /\ load_pc' = "reconcile"
    /\ UNCHANGED reloadVars
    /\ reconcile_pos' = 1
    /\ UNCHANGED << convert_finished, old_headers, old_pending, tablet_metas,
                    rowset_metas, dir_rowset_metas, load_res, txn_map,
                    tablet_rowsets, reconcile_log, warned >>
    /\ UNCHANGED nonLoadVars

ReconcileBranch_AttachesPrepared(rowset_state) ==
    IF rowset_state = COMMITTED THEN "commit" ELSE "attach"

\* the branch the loop takes on rowset_state()
ReconcileBranch(rowset_state) ==
    IF rowset_state = COMMITTED THEN "commit"
    ELSE IF rowset_state = VISIBLE THEN "attach"
    ELSE "invalid"

\* the rowsets the transaction manager holds for a tablet of a transaction
Registered(partition_id, txn_id, t) ==
    { x \in txn_map : x[1] = partition_id /\ x[2] = txn_id /\ x[3] = t }

\* TxnManager::commit_txn: a transaction that already holds a rowset for
\* the tablet keeps it and answers already-exist; otherwise the rowset is
\* registered, unless the call fails
CommitTxn(meta, id, status) ==
    IF Registered(meta.partition_id, meta.txn_id, meta.tablet) # {}
    THEN /\ status = OLAP_ERR_PUSH_TRANSACTION_ALREADY_EXIST
         /\ UNCHANGED txn_map
    ELSE \/ /\ status = OLAP_SUCCESS
            /\ txn_map' = txn_map \cup
                   { << meta.partition_id, meta.txn_id, meta.tablet, id >> }
         \/ /\ status = LoadError
            /\ UNCHANGED txn_map

\* Tablet::add_inc_rowset
AddIncRowset(t, id, status) ==
    \/ /\ status = OLAP_SUCCESS
       /\ tablet_rowsets' = [tablet_rowsets EXCEPT ![t] = @ \cup { id }]
    \/ /\ status = LoadError
       /\ UNCHANGED tablet_rowsets

Logged(id, what) ==
    reconcile_log' =
        [x \in DOMAIN reconcile_log \cup { id } |->
            IF x = id THEN what ELSE reconcile_log[x]]

CommitFailed_OnAlreadyExist(commit_txn_status) == commit_txn_status # OLAP_SUCCESS

\* if (commit_txn_status != OLAP_SUCCESS
\*     && commit_txn_status != OLAP_ERR_PUSH_TRANSACTION_ALREADY_EXIST)
CommitFailed(commit_txn_status) ==
    /\ commit_txn_status # OLAP_SUCCESS
    /\ commit_txn_status # OLAP_ERR_PUSH_TRANSACTION_ALREADY_EXIST

\* the store is what it was at the previous load, so the calls that depend
\* on it alone answer as they did then
SameAnswers(id, log) ==
    (prev_load.valid /\ id \in DOMAIN prev_load.log) => log[id] = prev_load.log[id]

\* one iteration of the reconciliation loop
ReconcileRowsetMeta ==
    /\ load_pc = "reconcile"
    /\ reconcile_pos <= Len(dir_rowset_metas)
    /\ LET id == dir_rowset_metas[reconcile_pos]
           meta == rowset_metas[id]
       IN IF meta.tablet \notin tablet_map
          THEN /\ Logged(id, << "skip", "no_tablet" >>)
               /\ UNCHANGED << txn_map, tablet_rowsets >>
          ELSE \E created \in BOOLEAN, status \in { OLAP_SUCCESS, LoadError,
                                     OLAP_ERR_PUSH_TRANSACTION_ALREADY_EXIST } :
                 IF ~created
                 THEN /\ status = LoadError
                      /\ Logged(id, << "skip", "create_failed" >>)
                      /\ UNCHANGED << txn_map, tablet_rowsets >>
                 ELSE CASE ReconcileBranch(meta.rowset_state) = "commit" ->
                              /\ CommitTxn(meta, id, status)
                              /\ Logged(id, << "commit", status >>)
                              /\ UNCHANGED tablet_rowsets
                        [] ReconcileBranch(meta.rowset_state) = "attach" ->
                              /\ AddIncRowset(meta.tablet, id, status)
                              /\ Logged(id, << "attach", status >>)
                              /\ UNCHANGED txn_map
                        [] OTHER ->
                              /\ status = OLAP_SUCCESS
                              /\ Logged(id, << "skip", "invalid" >>)
                              /\ UNCHANGED << txn_map, tablet_rowsets >>
    /\ LET done == reconcile_log'[dir_rowset_metas[reconcile_pos]]
       IN warned' = IF done[1] = "commit" /\ CommitFailed(done[2])
                    THEN warned \cup { dir_rowset_metas[reconcile_pos] }
                    ELSE warned
    /\ SameAnswers(dir_rowset_metas[reconcile_pos], reconcile_log')
    /\ reconcile_pos' = reconcile_pos + 1
    /\ UNCHANGED reloadVars
    /\ UNCHANGED << tablet_map, convert_finished, old_headers, old_pending,
                    tablet_metas, rowset_metas, dir_rowset_metas, load_pc,
                    load_res >>
    /\ UNCHANGED nonLoadVars

LoadResult_ErrorAfterSkip(log) ==
    IF \E id \in DOMAIN log : log[id][1] = "skip" \/ log[id][2] = LoadError
    THEN LoadError ELSE OLAP_SUCCESS

\* return OLAP_SUCCESS, whatever the loop logged
LoadResult(log) == OLAP_SUCCESS

\* the loop is over: return OLAP_SUCCESS
ReturnFromLoad ==
    /\ load_pc = "reconcile"
    /\ reconcile_pos > Len(dir_rowset_metas)
    /\ LoadReturns(LoadResult(reconcile_log))
    /\ UNCHANGED reloadVars
    /\ UNCHANGED << tablet_map, convert_finished, old_headers, old_pending,
                    tablet_metas, rowset_metas, dir_rowset_metas, reconcile_pos,
                    txn_map, tablet_rowsets, reconcile_log, warned >>
    /\ UNCHANGED nonLoadVars

\* the process ends and the engine is opened again on the same store:
\* what was in memory is gone, what is on disk stays
Restart ==
    /\ load_pc = "returned"
    /\ load_round < MaxLoads
    /\ load_round' = load_round + 1
    /\ load_pc' = "start"
    /\ load_res' = None
    /\ tablet_map' = {}
    /\ dir_rowset_metas' = << >>
    /\ reconcile_pos' = 1
    /\ txn_map' = {}
    /\ tablet_rowsets' = [t \in LoadTablets |-> {}]
    /\ reconcile_log' = << >>
    /\ warned' = {}
    /\ start_flag' = convert_finished
    /\ legacy_ran' = FALSE
    /\ prev_load' = IF load_res = OLAP_SUCCESS /\ start_flag
                    THEN [valid |-> TRUE, collected |-> dir_rowset_metas,
                          loaded |-> tablet_map, log |-> reconcile_log,
                          rowsets |-> tablet_rowsets, txns |-> txn_map]
                    ELSE prev_load
    /\ UNCHANGED << convert_finished, old_headers, old_pending, tablet_metas,
                    rowset_metas >>
    /\ UNCHANGED nonLoadVars

LoadNext ==
    \/ Restart
    \/ GetConvertFlag
    \/ CleanUnfinishedConvertingData
    \/ ConvertOldTablet
    \/ SetConvertFinished
    \/ LoadRowsetMetas
    \/ LoadTabletsFromMeta
    \/ ReconcileRowsetMeta
    \/ ReturnFromLoad

\* the load has returned success: the reconciliation loop ran to its end
Loaded == load_pc = "returned" /\ load_res = OLAP_SUCCESS

\* the rowset is registered in the transaction manager under the meta's
\* (partition_id, txn_id) for the meta's tablet
InTxnManager(id) ==
    LET meta == rowset_metas[id]
    IN << meta.partition_id, meta.txn_id, meta.tablet, id >> \in txn_map

\* the rowset is in the rowset set of its owning tablet
InOwningTablet(id) ==
    LET meta == rowset_metas[id]
    IN meta.tablet \in tablet_map /\ id \in tablet_rowsets[meta.tablet]

InTxnManagerAnywhere(id) == \E x \in txn_map : x[4] = id

InAnyTablet(id) == \E t \in LoadTablets : id \in tablet_rowsets[t]

Committing == { id \in DOMAIN reconcile_log : reconcile_log[id][1] = "commit" }

AnsweredAlreadyExist ==
    { id \in Committing :
         reconcile_log[id][2] = OLAP_ERR_PUSH_TRANSACTION_ALREADY_EXIST }

\* C12: registering a commit for a (partition_id, txn_id, tablet) that is
\* already registered leaves exactly one entry for it in the transaction
\* record; no key ever holds two. The loader treats the already-exists
\* answer as it treats success: no failure is logged, the loop goes on, and
\* the load does not return an error for it.
C12_DuplicateCommitIsBenign ==
    /\ \A x \in txn_map : Cardinality(Registered(x[1], x[2], x[3])) = 1
    /\ \A id \in AnsweredAlreadyExist :
          LET meta == rowset_metas[id]
          IN /\ Cardinality(Registered(meta.partition_id, meta.txn_id, meta.tablet)) = 1
             /\ id \notin warned
             /\ load_pc \in { "reconcile", "returned" }
             /\ load_res \in { None, OLAP_SUCCESS }
    /\ \A id \in Committing :
          id \in warned <=> reconcile_log[id][2] = LoadError

\* a load returned success after a second commit for the same transaction
\* and tablet was answered already-exist
C12_Witness ==
    /\ Loaded
    /\ AnsweredAlreadyExist # {}
    /\ \E id \in Committing : reconcile_log[id][2] = OLAP_SUCCESS

\* the load has returned an error
Aborted == load_pc = "returned" /\ load_res # OLAP_SUCCESS

\* the part of _load_data_dir after the conversion has done nothing
NothingLoaded ==
    /\ dir_rowset_metas = << >>
    /\ reconcile_log = << >>
    /\ tablet_map = {}
    /\ txn_map = {}

StoreLeftInPlace ==
    \* the legacy headers stay, converted or not
    /\ old_headers' = old_headers
    /\ old_pending' = old_pending
    \* with the flag set nothing in the store is removed or written
    /\ convert_finished =>
          /\ convert_finished'
          /\ tablet_metas' = tablet_metas
          /\ rowset_metas' = rowset_metas
    \* a rowset meta the loop skips for its missing tablet stays
    /\ \A id \in DOMAIN reconcile_log' :
          reconcile_log'[id] = << "skip", "no_tablet" >> =>
              /\ id \in DOMAIN rowset_metas'
              /\ rowset_metas'[id] = rowset_metas[id]

\* C30: no step of _load_data_dir removes a legacy header; once the flag is
\* set no step removes or rewrites a tablet meta or a rowset meta, and the
\* flag stays set; a rowset meta whose tablet is not in the directory is
\* skipped and is still in the store, unchanged.
C30_LoadLeavesStoreInPlace == [][StoreLeftInPlace]_vars

\* a load of a converted store that still holds its legacy headers returned
\* after it skipped a rowset meta whose tablet did not load
C30_Witness ==
    /\ Loaded
    /\ start_flag
    /\ old_headers # {}
    /\ \E id \in DOMAIN rowset_metas :
          /\ id \in DOMAIN reconcile_log
          /\ reconcile_log[id] = << "skip", "no_tablet" >>
          /\ rowset_metas[id].tablet \in tablet_metas

(***************************************************************************)
(* Legacy conversion of one volume, step by step, with restarts            *)
(***************************************************************************)
\* the rowset metas to_new_snapshot makes of a legacy header, in the order
\* pending_rowsets holds them
PendingRowsets(t) ==
    IF t = <<3, 2>> THEN << 1, 2 >>
    ELSE IF t = <<7, 1>> THEN << 3 >>
    ELSE << >>

\* the legacy headers in the order traverse_headers visits them
HeaderOrder ==
    LET ids == Ascending({ t[1] : t \in DOMAIN cv_old_headers })
    IN [i \in 1..Len(ids) |-> CHOOSE t \in DOMAIN cv_old_headers : t[1] = ids[i]]

NothingStored == [tablet_metas |-> {}, rowset_metas |-> {}]

\* no tablet in the tablet directory, no rowset in the transaction manager
NothingRegistered == [tablets |-> {}, txns |-> {}]

\* what a process has in memory when it starts
ConvertFresh ==
    /\ cv_pc = "start"
    /\ cv_it = 1
    /\ cv_saved = 0
    /\ cv_res = None
    /\ cv_registered = NothingRegistered
    /\ cv_cleaned = FALSE

\* a volume that was never converted: legacy headers, some of which do not
\* convert, and nothing else in the store
ConvertInit ==
    /\ \E H \in SUBSET TabletInfos : cv_old_headers \in [H -> BOOLEAN]
    /\ cv_flag = FALSE
    /\ cv_tablet_metas = {}
    /\ cv_rowset_metas = {}
    /\ cv_restarts = 0
    /\ cv_left_behind = {}
    /\ cv_at_restart = NothingStored
    /\ ConvertFresh

ConvertQuiet ==
    /\ cv_old_headers = << >>
    /\ cv_flag = TRUE
    /\ cv_tablet_metas = {}
    /\ cv_rowset_metas = {}
    /\ cv_restarts = 0
    /\ cv_left_behind = {}
    /\ cv_at_restart = << >>
    /\ cv_pc = "returned"
    /\ cv_it = 1
    /\ cv_saved = 0
    /\ cv_res = None
    /\ cv_registered = << >>
    /\ cv_cleaned = FALSE

ConvertReturns(res) ==
    /\ cv_pc' = "returned"
    /\ cv_res' = res

\* get_tablet_convert_finished and the branch on the flag
ConvertGetFlag ==
    /\ cv_pc = "start"
    /\ \E ok \in BOOLEAN :
          IF ok
          THEN /\ cv_pc' = IF NeedsConversion(cv_flag) THEN "clean_tablet_metas"
                                                       ELSE "load"
               /\ UNCHANGED cv_res
          ELSE ConvertReturns(OLAP_ERR_META_GET)
    /\ UNCHANGED << cv_old_headers, cv_flag, cv_tablet_metas, cv_rowset_metas,
                    cv_it, cv_saved, cv_registered, cv_restarts, cv_cleaned,
                    cv_left_behind, cv_at_restart >>
    /\ UNCHANGED nonConvertVars

\* _clean_unfinished_converting_data, tablet metas: the result of remove()
\* is dropped and a failed traversal is only logged, so any of the metas
\* may stay
CleanTabletMetas ==
    /\ cv_pc = "clean_tablet_metas"
    /\ \E removed \in SUBSET cv_tablet_metas :
          /\ cv_tablet_metas' = cv_tablet_metas \ removed
          /\ cv_cleaned' = (removed = cv_tablet_metas)
          /\ cv_left_behind' = cv_tablet_metas \ removed
    /\ cv_pc' = "clean_rowset_metas"
    /\ UNCHANGED << cv_old_headers, cv_flag, cv_rowset_metas, cv_it, cv_saved,
                    cv_res, cv_registered, cv_restarts, cv_at_restart >>
    /\ UNCHANGED nonConvertVars

\* _clean_unfinished_converting_data, rowset metas
CleanRowsetMetas ==
    /\ cv_pc = "clean_rowset_metas"
    /\ \E removed \in SUBSET cv_rowset_metas :
          /\ cv_rowset_metas' = cv_rowset_metas \ removed
          /\ cv_cleaned' = (cv_cleaned /\ removed = cv_rowset_metas)
    /\ cv_pc' = "convert"
    /\ cv_it' = 1
    /\ cv_saved' = 0
    /\ UNCHANGED << cv_old_headers, cv_flag, cv_tablet_metas, cv_res,
                    cv_registered, cv_restarts, cv_left_behind, cv_at_restart >>
    /\ UNCHANGED nonConvertVars

CallbackFails_Never(converts) == FALSE

\* if (!parsed) return false; if (status != OLAP_SUCCESS) return false;
CallbackFails(converts) == ~converts

\* convert_tablet_func up to the saves: ParseFromString and to_new_snapshot;
\* a false return ends the traversal and _convert_old_tablet fails
ConvertHeader ==
    /\ cv_pc = "convert"
    /\ cv_it <= Len(HeaderOrder)
    /\ IF ~CallbackFails(cv_old_headers[HeaderOrder[cv_it]])
       THEN /\ cv_pc' = "save"
            /\ cv_saved' = 0
            /\ UNCHANGED cv_res
       ELSE /\ ConvertReturns(LoadError)
            /\ UNCHANGED cv_saved
    /\ UNCHANGED << cv_old_headers, cv_flag, cv_tablet_metas, cv_rowset_metas,
                    cv_it, cv_registered, cv_restarts, cv_cleaned,
                    cv_left_behind, cv_at_restart >>
    /\ UNCHANGED nonConvertVars

SavesTabletMeta_BeforeRowsets(saved, pending) == saved = 0

\* the loop over pending_rowsets has ended
SavesTabletMeta(saved, pending) == saved = Len(pending)

\* RowsetMetaManager::save of the next pending rowset meta
SavePendingRowset ==
    /\ cv_pc = "save"
    /\ LET pending == PendingRowsets(HeaderOrder[cv_it]) IN
       /\ cv_saved < Len(pending)
       /\ ~SavesTabletMeta(cv_saved, pending)
       /\ \E ok \in BOOLEAN :
             IF ok
             THEN /\ cv_rowset_metas' = cv_rowset_metas \cup { pending[cv_saved + 1] }
                  /\ cv_saved' = cv_saved + 1
                  /\ UNCHANGED << cv_pc, cv_res >>
             ELSE /\ ConvertReturns(LoadError)
                  /\ UNCHANGED << cv_rowset_metas, cv_saved >>
    /\ UNCHANGED << cv_old_headers, cv_flag, cv_tablet_metas, cv_it,
                    cv_registered, cv_restarts, cv_cleaned, cv_left_behind,
                    cv_at_restart >>
    /\ UNCHANGED nonConvertVars

\* TabletMetaManager::save of the converted tablet meta; the callback
\* returns true and the traversal goes to the next header
SaveTabletMeta ==
    /\ cv_pc = "save"
    /\ SavesTabletMeta(cv_saved, PendingRowsets(HeaderOrder[cv_it]))
    /\ \E ok \in BOOLEAN :
          IF ok
          THEN /\ cv_tablet_metas' = cv_tablet_metas \cup { HeaderOrder[cv_it] }
               /\ cv_left_behind' = cv_left_behind \ { HeaderOrder[cv_it] }
               /\ cv_it' = cv_it + 1
               /\ cv_saved' = 0
               /\ cv_pc' = "convert"
               /\ UNCHANGED cv_res
          ELSE /\ ConvertReturns(LoadError)
               /\ UNCHANGED << cv_tablet_metas, cv_left_behind, cv_it, cv_saved >>
    /\ UNCHANGED << cv_old_headers, cv_flag, cv_rowset_metas,
                    cv_registered, cv_restarts, cv_cleaned, cv_at_restart >>
    /\ UNCHANGED nonConvertVars

TraversalOver_AfterFirst(it, order) == it > 1

\* traverse_headers has visited every legacy header and returns OLAP_SUCCESS
TraversalOver(it, order) == it > Len(order)

\* the traversal is over: set_tablet_convert_finished
ConvertSetFlag ==
    /\ cv_pc = "convert"
    /\ TraversalOver(cv_it, HeaderOrder)
    /\ \E ok \in BOOLEAN :
          IF ok
          THEN /\ cv_flag' = TRUE
               /\ cv_pc' = "load"
               /\ UNCHANGED cv_res
          ELSE /\ ConvertReturns(OLAP_ERR_META_PUT)
               /\ UNCHANGED cv_flag
    /\ UNCHANGED << cv_old_headers, cv_tablet_metas, cv_rowset_metas, cv_it,
                    cv_saved, cv_registered, cv_restarts, cv_cleaned,
                    cv_left_behind, cv_at_restart >>
    /\ UNCHANGED nonConvertVars

\* the rest of _load_data_dir: the tablets whose load succeeds are
\* registered, and the function returns OLAP_SUCCESS
ConvertLoad ==
    /\ cv_pc = "load"
    /\ \E tablets \in SUBSET cv_tablet_metas :
          \E txns \in SUBSET UNION { Range(PendingRowsets(t)) : t \in tablets } :
              cv_registered' = [tablets |-> tablets,
                                txns |-> txns \cap cv_rowset_metas]
    /\ ConvertReturns(OLAP_SUCCESS)
    /\ UNCHANGED << cv_old_headers, cv_flag, cv_tablet_metas, cv_rowset_metas,
                    cv_it, cv_saved, cv_restarts, cv_cleaned, cv_left_behind,
                    cv_at_restart >>
    /\ UNCHANGED nonConvertVars

\* the process ends at any point, by a crash or a shutdown, and starts
\* again on the same store
ConvertRestart ==
    /\ cv_restarts < MaxRestarts
    /\ cv_restarts' = cv_restarts + 1
    /\ cv_at_restart' = [tablet_metas |-> cv_tablet_metas,
                         rowset_metas |-> cv_rowset_metas]
    /\ cv_pc' = "start"
    /\ cv_it' = 1
    /\ cv_saved' = 0
    /\ cv_res' = None
    /\ cv_registered' = NothingRegistered
    /\ cv_cleaned' = FALSE
    /\ UNCHANGED << cv_old_headers, cv_flag, cv_tablet_metas, cv_rowset_metas,
                    cv_left_behind >>
    /\ UNCHANGED nonConvertVars

ConvertNext ==
    \/ ConvertGetFlag
    \/ CleanTabletMetas
    \/ CleanRowsetMetas
    \/ ConvertHeader
    \/ SavePendingRowset
    \/ SaveTabletMeta
    \/ ConvertSetFlag
    \/ ConvertLoad
    \/ ConvertRestart

\* the pending rowset metas of a legacy header are in the store
PendingStored(t) == Range(PendingRowsets(t)) \subseteq cv_rowset_metas

\* C26 as the specification states it: in every state of the store, a
\* converted tablet meta of a legacy header is there only with all the
\* pending rowset metas of that header.
C26_AsStated ==
    \A t \in DOMAIN cv_old_headers : t \in cv_tablet_metas => PendingStored(t)

\* C26: _convert_old_tablet saves the pending rowset metas of a header
\* before its tablet meta, so a tablet meta saved by a conversion is in the
\* store only with all the pending rowset metas of its header, at every
\* point a conversion can stop; the exception is a tablet meta that a
\* clean-up failed to remove (the failure is dropped) while it removed the
\* rowset metas: it stays without them until the conversion saves that
\* header again.
C26_PendingBeforeTabletMeta ==
    /\ \A t \in DOMAIN cv_old_headers :
          (t \in cv_tablet_metas /\ t \notin cv_left_behind) => PendingStored(t)
    /\ cv_left_behind \subseteq cv_tablet_metas
    /\ (cv_pc \in { "convert", "save" } /\ cv_cleaned) => cv_left_behind = {}

\* a conversion stopped between the pending rowset metas and the tablet
\* meta of the second header, after it had converted the first
C26_Witness ==
    /\ cv_pc = "returned"
    /\ cv_res = LoadError
    /\ cv_it = 2
    /\ cv_tablet_metas = { HeaderOrder[1] }
    /\ Len(PendingRowsets(HeaderOrder[1])) = 2
    /\ PendingStored(HeaderOrder[1])
    /\ PendingStored(HeaderOrder[2])
    /\ PendingRowsets(HeaderOrder[2]) # << >>

\* the store after an uninterrupted conversion of the legacy headers
ConvertedTabletMetas == DOMAIN cv_old_headers

ConvertedRowsetMetas ==
    UNION { Range(PendingRowsets(t)) : t \in DOMAIN cv_old_headers }

\* the flag is set only over a store that holds the whole conversion
FlagAfterWholeConversion ==
    cv_flag =>
        /\ \A t \in DOMAIN cv_old_headers : cv_old_headers[t]
        /\ cv_tablet_metas = ConvertedTabletMetas
        /\ cv_rowset_metas = ConvertedRowsetMetas

\* what this run has saved when the traversal is at header cv_it
SavedByThisRun ==
    [tablet_metas |-> { HeaderOrder[i] : i \in 1..(cv_it - 1) },
     rowset_metas |->
        UNION { Range(PendingRowsets(HeaderOrder[i])) : i \in 1..(cv_it - 1) }
        \cup (IF cv_it <= Len(HeaderOrder)
              THEN { PendingRowsets(HeaderOrder[cv_it])[k] : k \in 1..cv_saved }
              ELSE {})]

\* C27 as the specification states it: the flag is set only after every
\* legacy header was converted and saved; a load that finds the flag unset
\* first removes every tablet meta and rowset meta and converts again from
\* the first legacy header, so that the conversion works on a store that
\* holds only what it has saved itself; and the flag is set over the store
\* an uninterrupted conversion leaves.
C27_AsStated ==
    /\ FlagAfterWholeConversion
    /\ cv_pc \in { "convert", "save" } =>
          /\ cv_tablet_metas = SavedByThisRun.tablet_metas
          /\ cv_rowset_metas = SavedByThisRun.rowset_metas

\* C27: the flag is set only after every legacy header was converted and
\* saved, and then the store is the one an uninterrupted conversion leaves,
\* whatever restarts came before; a load that finds the flag unset runs the
\* clean-up and converts again from the first legacy header; the clean-up
\* removes the metas left by the partial conversion unless a removal or a
\* traversal fails, which is only logged: then the left metas stay, and they
\* are metas the conversion saves again.
C27_ConversionRecovery ==
    /\ FlagAfterWholeConversion
    /\ cv_pc \in { "convert", "save" } =>
          /\ ~cv_flag
          /\ SavedByThisRun.tablet_metas \subseteq cv_tablet_metas
          /\ SavedByThisRun.rowset_metas \subseteq cv_rowset_metas
          /\ cv_tablet_metas \subseteq
                SavedByThisRun.tablet_metas \cup cv_at_restart.tablet_metas
          /\ cv_rowset_metas \subseteq
                SavedByThisRun.rowset_metas \cup cv_at_restart.rowset_metas
          /\ cv_cleaned =>
                /\ cv_tablet_metas = SavedByThisRun.tablet_metas
                /\ cv_rowset_metas = SavedByThisRun.rowset_metas
    /\ cv_tablet_metas \subseteq ConvertedTabletMetas
    /\ cv_rowset_metas \subseteq ConvertedRowsetMetas

\* the process ended inside the conversion of the second of three headers;
\* the next load cleaned the store, converted all three and set the flag
C27_Witness ==
    /\ cv_flag
    /\ cv_pc = "load"
    /\ cv_cleaned
    /\ cv_restarts = 1
    /\ Cardinality(DOMAIN cv_old_headers) = 3
    /\ cv_at_restart.tablet_metas = { HeaderOrder[1] }
    /\ cv_at_restart.rowset_metas = { 1, 2, 3 }

\* C28: a volume with a legacy header that does not convert never gets the
\* flag set and no load of it registers a tablet or a rowset: the
\* conversion stops at that header, the headers after it are not converted
\* by that run, and _load_data_dir returns the error of the conversion.
C28_ConversionFailureAborts ==
    /\ (\E t \in DOMAIN cv_old_headers : ~cv_old_headers[t]) =>
          /\ ~cv_flag
          /\ cv_registered = NothingRegistered
          /\ cv_res # OLAP_SUCCESS
    /\ (cv_pc = "returned" /\ cv_res = LoadError) =>
          /\ ~cv_flag
          /\ cv_registered = NothingRegistered
          /\ cv_it <= Len(HeaderOrder)
          /\ cv_cleaned => cv_tablet_metas = { HeaderOrder[i] : i \in 1..(cv_it - 1) }

\* the second of three legacy headers did not parse: the load returned the
\* error with the first header converted and nothing registered
C28_Witness ==
    /\ cv_pc = "returned"
    /\ cv_res = LoadError
    /\ Cardinality(DOMAIN cv_old_headers) = 3
    /\ ~cv_old_headers[HeaderOrder[2]]
    /\ cv_it = 2
    /\ cv_saved = 0
    /\ cv_tablet_metas = { HeaderOrder[1] }
    /\ cv_registered = NothingRegistered

(***************************************************************************)
(* Opening of the engine: cluster id of the volumes, load of the volumes   *)
(***************************************************************************)
\* the keys of _store_map, in the order the map is iterated
Volumes == 1..MaxVolumes

\* -1: no cluster id stored
Unset == -1

ClusterIds == { Unset, 5, 7 }

OLAP_ERR_INVALID_CLUSTER_INFO == "OLAP_ERR_INVALID_CLUSTER_INFO"
OLAP_ERR_INVALID_ROOT_PATH == "OLAP_ERR_INVALID_ROOT_PATH"
OLAP_ERR_INIT_FAILED == "OLAP_ERR_INIT_FAILED"

\* the iterator of a loop over _store_map after volume v
StoreAfter(v) == v + 1

\* end of _store_map
StoreEnd == MaxVolumes + 1

\* the engine after its constructor
OpenInit ==
    /\ stored_cluster_id \in [Volumes -> ClusterIds]
    /\ initial_cluster_id = stored_cluster_id
    /\ config_cluster_id \in ClusterIds
    /\ effective_cluster_id = Unset
    /\ is_all_cluster_id_exist = TRUE
    /\ open_pc = "init_stores"
    /\ open_res = None
    /\ cluster_id = Unset
    /\ store_it = 1
    /\ written = {}
    /\ worker_pc = [v \in Volumes |-> "none"]
    /\ worker_res = [v \in Volumes |-> None]
    /\ bg_worker_started = FALSE

\* no engine is being opened
OpenQuiet ==
    /\ stored_cluster_id = << >>
    /\ initial_cluster_id = << >>
    /\ config_cluster_id = Unset
    /\ effective_cluster_id = Unset
    /\ is_all_cluster_id_exist = TRUE
    /\ open_pc = "returned"
    /\ open_res = None
    /\ cluster_id = Unset
    /\ store_it = 1
    /\ written = {}
    /\ worker_pc = << >>
    /\ worker_res = << >>
    /\ bg_worker_started = FALSE

OpenReturns(res) ==
    /\ open_pc' = "returned"
    /\ open_res' = res

\* open: the stores are created and initialised, then
\* _effective_cluster_id = config::cluster_id
InitStores ==
    /\ open_pc = "init_stores"
    /\ \E ok \in BOOLEAN :
          IF ok
          THEN /\ effective_cluster_id' = config_cluster_id
               /\ open_pc' = "check"
               /\ store_it' = 1
               /\ UNCHANGED open_res
          ELSE /\ OpenReturns(OLAP_ERR_INVALID_ROOT_PATH)
               /\ UNCHANGED << effective_cluster_id, store_it >>
    /\ UNCHANGED << stored_cluster_id, initial_cluster_id, config_cluster_id,
                    is_all_cluster_id_exist, cluster_id, written, worker_pc,
                    worker_res, bg_worker_started, tablet_map, txn_map >>
    /\ UNCHANGED nonOpenVars

ClusterIdsDiffer_Never(one, other) == FALSE

\* the last else of the loop: both ids are set and they are not equal
ClusterIdsDiffer(one, other) == one # Unset /\ other # Unset /\ one # other

\* check_all_root_path_cluster_id: one iteration of the loop
CheckVolumeClusterId ==
    /\ open_pc = "check"
    /\ store_it # StoreEnd
    /\ LET tmp_cluster_id == stored_cluster_id[store_it] IN
         IF tmp_cluster_id = Unset
         THEN /\ is_all_cluster_id_exist' = FALSE
              /\ store_it' = StoreAfter(store_it)
              /\ UNCHANGED << cluster_id, open_pc, open_res >>
         ELSE IF ClusterIdsDiffer(cluster_id, tmp_cluster_id)
         THEN /\ OpenReturns(OLAP_ERR_INVALID_CLUSTER_INFO)
              /\ UNCHANGED << cluster_id, is_all_cluster_id_exist, store_it >>
         ELSE /\ cluster_id' = tmp_cluster_id
              /\ store_it' = StoreAfter(store_it)
              /\ UNCHANGED << is_all_cluster_id_exist, open_pc, open_res >>
    /\ UNCHANGED << stored_cluster_id, initial_cluster_id, config_cluster_id,
                    effective_cluster_id, written, worker_pc, worker_res,
                    bg_worker_started, tablet_map, txn_map >>
    /\ UNCHANGED nonOpenVars

JudgedEffective_ConfigWins(id, effective) == effective

\* _judge_and_update_effective_cluster_id: the effective id afterwards
JudgedEffective(id, effective) ==
    IF id # Unset /\ effective = Unset THEN id ELSE effective

\* _judge_and_update_effective_cluster_id: the status
JudgedStatus(id, effective) ==
    IF id # Unset /\ effective # Unset /\ id # effective
    THEN OLAP_ERR_INVALID_CLUSTER_INFO
    ELSE OLAP_SUCCESS

\* check_all_root_path_cluster_id after the loop: judge, then decide
\* whether to write the effective id to the volumes
JudgeEffectiveClusterId ==
    /\ open_pc = "check"
    /\ store_it = StoreEnd
    /\ effective_cluster_id' = JudgedEffective(cluster_id, effective_cluster_id)
    /\ IF JudgedStatus(cluster_id, effective_cluster_id) # OLAP_SUCCESS
       THEN /\ OpenReturns(OLAP_ERR_INVALID_CLUSTER_INFO)
            /\ UNCHANGED store_it
       ELSE IF effective_cluster_id' # Unset /\ ~is_all_cluster_id_exist
       THEN /\ open_pc' = "set_cluster_id"
            /\ store_it' = 1
            /\ UNCHANGED open_res
       ELSE /\ open_pc' = "caches"
            /\ UNCHANGED << store_it, open_res >>
    /\ UNCHANGED << stored_cluster_id, initial_cluster_id, config_cluster_id,
                    is_all_cluster_id_exist, cluster_id, written, worker_pc,
                    worker_res, bg_worker_started, tablet_map, txn_map >>
    /\ UNCHANGED nonOpenVars

\* set_cluster_id: one iteration, RETURN_IF_ERROR on the volume's write; the
\* caller drops the Status
WriteClusterId ==
    /\ open_pc = "set_cluster_id"
    /\ store_it # StoreEnd
    /\ \E ok \in BOOLEAN :
          IF ok
          THEN /\ stored_cluster_id' =
                      [stored_cluster_id EXCEPT ![store_it] = effective_cluster_id]
               /\ written' = written \cup { store_it }
               /\ store_it' = StoreAfter(store_it)
               /\ UNCHANGED open_pc
          ELSE /\ open_pc' = "caches"
               /\ UNCHANGED << stored_cluster_id, written, store_it >>
    /\ UNCHANGED << initial_cluster_id, config_cluster_id, effective_cluster_id,
                    is_all_cluster_id_exist, open_res, cluster_id, worker_pc,
                    worker_res, bg_worker_started, tablet_map, txn_map >>
    /\ UNCHANGED nonOpenVars

\* set_cluster_id after the loop
AllClusterIdsWritten ==
    /\ open_pc = "set_cluster_id"
    /\ store_it = StoreEnd
    /\ is_all_cluster_id_exist' = TRUE
    /\ open_pc' = "caches"
    /\ UNCHANGED << stored_cluster_id, initial_cluster_id, config_cluster_id,
                    effective_cluster_id, open_res, cluster_id, store_it, written,
                    worker_pc, worker_res, bg_worker_started, tablet_map, txn_map >>
    /\ UNCHANGED nonOpenVars

\* open: the two LRU caches are created, then load_data_dirs starts a
\* thread for every store
InitCachesAndStartLoad ==
    /\ open_pc = "caches"
    /\ \E ok \in BOOLEAN :
          IF ok
          THEN /\ open_pc' = "load_data_dirs"
               /\ worker_pc' = [v \in Volumes |-> "started"]
               /\ UNCHANGED open_res
          ELSE /\ OpenReturns(OLAP_ERR_INIT_FAILED)
               /\ UNCHANGED worker_pc
    /\ UNCHANGED << stored_cluster_id, initial_cluster_id, config_cluster_id,
                    effective_cluster_id, is_all_cluster_id_exist, cluster_id,
                    store_it, written, worker_res, bg_worker_started, tablet_map,
                    txn_map >>
    /\ UNCHANGED nonOpenVars

\* what the open leaves alone while the volumes are loaded
clusterVars == << stored_cluster_id, initial_cluster_id, config_cluster_id,
                  effective_cluster_id, is_all_cluster_id_exist, cluster_id,
                  store_it, written >>

\* the tablet whose meta the store of a volume holds, and the committed
\* rowset meta the store holds for it: a tablet belongs to one volume
VolumeTablet(v) == << v, 1 >>
VolumeRowset(v) == v
VolumeTxn(v) == << 10, 100, VolumeTablet(v), VolumeRowset(v) >>

WorkerTo(v, to) == worker_pc' = [worker_pc EXCEPT ![v] = to]

\* the thread of a volume: _load_data_dir up to the loading of the
\* tablets; a failure is returned to the thread, which logs it
WorkerBegin(v) ==
    /\ open_pc = "load_data_dirs"
    /\ worker_pc[v] = "started"
    /\ \E ok \in BOOLEAN :
          IF ok
          THEN /\ WorkerTo(v, "load_tablets")
               /\ UNCHANGED worker_res
          ELSE /\ WorkerTo(v, "finished")
               /\ worker_res' = [worker_res EXCEPT ![v] = LoadError]
    /\ UNCHANGED << clusterVars, open_pc, open_res, bg_worker_started, tablet_map,
                    txn_map >>
    /\ UNCHANGED nonOpenVars

\* the thread of a volume: the tablets of its store are registered
WorkerLoadTablets(v) ==
    /\ open_pc = "load_data_dirs"
    /\ worker_pc[v] = "load_tablets"
    /\ tablet_map' = tablet_map \cup { VolumeTablet(v) }
    /\ WorkerTo(v, "reconcile")
    /\ UNCHANGED << clusterVars, open_pc, open_res, worker_res, bg_worker_started,
                    txn_map >>
    /\ UNCHANGED nonOpenVars

\* the thread of a volume: the reconciliation loop, then return
WorkerReconcile(v) ==
    /\ open_pc = "load_data_dirs"
    /\ worker_pc[v] = "reconcile"
    /\ txn_map' = IF VolumeTablet(v) \in tablet_map
                  THEN txn_map \cup { VolumeTxn(v) }
                  ELSE txn_map
    /\ WorkerTo(v, "finished")
    /\ worker_res' = [worker_res EXCEPT ![v] = OLAP_SUCCESS]
    /\ UNCHANGED << clusterVars, open_pc, open_res, bg_worker_started, tablet_map >>
    /\ UNCHANGED nonOpenVars

AllJoined_AnyFinished == \E v \in Volumes : worker_pc[v] = "finished"

\* for (auto& thread : threads) thread.join();
AllJoined == \A v \in Volumes : worker_pc[v] = "finished"

\* load_data_dirs returns, open returns OLAP_SUCCESS
JoinWorkers ==
    /\ open_pc = "load_data_dirs"
    /\ AllJoined
    /\ OpenReturns(OLAP_SUCCESS)
    /\ UNCHANGED << clusterVars, worker_pc, worker_res, bg_worker_started,
                    tablet_map, txn_map >>
    /\ UNCHANGED nonOpenVars

\* the static open: _start_bg_worker after engine->open() succeeded
StartBgWorker ==
    /\ open_pc = "returned"
    /\ open_res = OLAP_SUCCESS
    /\ ~bg_worker_started
    /\ bg_worker_started' = TRUE
    /\ UNCHANGED << clusterVars, open_pc, open_res, worker_pc, worker_res,
                    tablet_map, txn_map >>
    /\ UNCHANGED nonOpenVars

OpenNext ==
    \/ InitStores
    \/ CheckVolumeClusterId
    \/ JudgeEffectiveClusterId
    \/ WriteClusterId
    \/ AllClusterIdsWritten
    \/ InitCachesAndStartLoad
    \/ \E v \in Volumes : WorkerBegin(v) \/ WorkerLoadTablets(v) \/ WorkerReconcile(v)
    \/ JoinWorkers
    \/ StartBgWorker

\* check_all_root_path_cluster_id has returned OLAP_SUCCESS
CheckPassed ==
    \/ open_pc \in { "caches", "load_data_dirs" }
    \/ open_pc = "returned" /\ open_res \in { OLAP_SUCCESS, OLAP_ERR_INIT_FAILED }

CheckFailed == open_pc = "returned" /\ open_res = OLAP_ERR_INVALID_CLUSTER_INFO

\* before open every volume stores no id or the id c, one stores c, and no
\* other id is configured
Agreement(c) ==
    /\ c # Unset
    /\ \A v \in Volumes : initial_cluster_id[v] \in { Unset, c }
    /\ \E v \in Volumes : initial_cluster_id[v] = c
    /\ config_cluster_id \in { Unset, c }

AllUnset ==
    /\ \A v \in Volumes : initial_cluster_id[v] = Unset
    /\ config_cluster_id = Unset

\* C13 as stated: with the volumes agreeing on c the check succeeds, the
\* effective cluster id is c, every volume reports c afterwards and the
\* all-exist flag is true; with every volume unset the effective id stays
\* -1 and no volume is written.
C13_AsStated ==
    /\ \A c \in ClusterIds :
          Agreement(c) =>
              /\ ~CheckFailed
              /\ CheckPassed =>
                    /\ effective_cluster_id = c
                    /\ \A v \in Volumes : stored_cluster_id[v] = c
                    /\ is_all_cluster_id_exist
    /\ AllUnset =>
          /\ stored_cluster_id = initial_cluster_id
          /\ written = {}
          /\ CheckPassed => effective_cluster_id = Unset

\* C13 (amended): with the volumes agreeing on c the check succeeds and the
\* effective cluster id is c. If no volume was unset nothing is written and
\* the all-exist flag is true. Otherwise c is written to the volumes in map
\* order up to the first write that fails: a volume reports c when it held
\* c or was written and stays unset otherwise; when every write succeeded,
\* every volume reports c and the all-exist flag is true; when one failed
\* the flag is false and the check succeeds all the same. With every
\* volume unset and no id configured the effective id stays -1 and no
\* volume is written.
C13_ClusterIdAgreement ==
    /\ \A c \in ClusterIds :
          Agreement(c) =>
              /\ ~CheckFailed
              /\ CheckPassed =>
                    /\ effective_cluster_id = c
                    /\ \A v \in Volumes :
                          stored_cluster_id[v] =
                              IF initial_cluster_id[v] = c \/ v \in written
                              THEN c ELSE Unset
                    /\ \A v \in written : \A u \in Volumes : u < v => u \in written
                    /\ (\A v \in Volumes : initial_cluster_id[v] = c) =>
                          written = {} /\ is_all_cluster_id_exist
                    /\ is_all_cluster_id_exist =>
                          \A v \in Volumes : stored_cluster_id[v] = c
                    /\ is_all_cluster_id_exist <=>
                          \/ written = Volumes
                          \/ \A v \in Volumes : initial_cluster_id[v] = c
    /\ AllUnset =>
          /\ stored_cluster_id = initial_cluster_id
          /\ written = {}
          /\ CheckPassed => effective_cluster_id = Unset

\* the check passed for volumes of which some were unset, nothing was
\* configured, and every volume was written
C13_Witness ==
    /\ CheckPassed
    /\ Agreement(5)
    /\ config_cluster_id = Unset
    /\ \E v \in Volumes : initial_cluster_id[v] = Unset
    /\ written = Volumes
    /\ is_all_cluster_id_exist
    /\ \A v \in Volumes : stored_cluster_id[v] = 5

\* two volumes store different cluster ids
Conflict ==
    \E u \in Volumes, v \in Volumes :
        /\ initial_cluster_id[u] # Unset
        /\ initial_cluster_id[v] # Unset
        /\ initial_cluster_id[u] # initial_cluster_id[v]

\* C14: when two volumes store different cluster ids, in whatever order the
\* volumes are visited and however many unset volumes lie between them, the
\* open fails with the cluster-info error (unless a store did not even
\* initialise, before any stored id is read), no volume's stored cluster id
\* is modified, no volume is loaded and the background workers are not
\* started.
C14_ClusterIdConflict ==
    Conflict =>
        /\ stored_cluster_id = initial_cluster_id
        /\ written = {}
        /\ open_pc \in { "init_stores", "check", "returned" }
        /\ open_pc = "returned" =>
              \/ open_res = OLAP_ERR_INVALID_CLUSTER_INFO
              \/ /\ open_res = OLAP_ERR_INVALID_ROOT_PATH
                 /\ store_it = 1
                 /\ cluster_id = Unset
        /\ \A v \in Volumes : worker_pc[v] = "none"
        /\ tablet_map = {}
        /\ ~bg_worker_started

\* open failed on two differing ids with an unset volume between them
C14_Witness ==
    /\ open_pc = "returned"
    /\ open_res = OLAP_ERR_INVALID_CLUSTER_INFO
    /\ \E u \in Volumes, v \in Volumes, w \in Volumes :
          /\ u < v /\ v < w
          /\ initial_cluster_id[u] = 7
          /\ initial_cluster_id[v] = Unset
          /\ initial_cluster_id[w] = 5

\* the volumes whose worker returned OLAP_SUCCESS
LoadedVolumes == { v \in Volumes : worker_res[v] = OLAP_SUCCESS }

\* C17: load_data_dirs runs one worker per volume and open returns from it
\* only when every worker has finished; a volume whose _load_data_dir
\* succeeded has its tablet and its transaction registered whatever the other
\* workers returned; and at the return the tablet directory and the
\* transaction records are those of the volumes that loaded, whatever the
\* order the workers ran in.
C17_ParallelLoadIsolation ==
    /\ open_pc = "load_data_dirs" => \A v \in Volumes : worker_pc[v] # None
    /\ (open_pc = "returned" /\ open_res = OLAP_SUCCESS) =>
          /\ \A v \in Volumes : worker_pc[v] = "finished"
          /\ tablet_map = { VolumeTablet(v) : v \in LoadedVolumes }
          /\ txn_map = { VolumeTxn(v) : v \in LoadedVolumes }
    /\ \A v \in LoadedVolumes :
          /\ VolumeTablet(v) \in tablet_map
          /\ VolumeTxn(v) \in txn_map

\* open has returned after a load in which the first volume failed, a later
\* one loaded, and another failed or loaded
C17_Witness ==
    /\ open_pc = "returned" /\ open_res = OLAP_SUCCESS
    /\ worker_res[1] = LoadError
    /\ \E v \in Volumes : v > 1 /\ worker_res[v] = OLAP_SUCCESS
    /\ VolumeTablet(1) \notin tablet_map

(***************************************************************************)
(* Disk-health monitor                                                     *)
(***************************************************************************)
ErrorPercentages == { 30, 50 }

DiskInit ==
    /\ is_used = [v \in Volumes |-> TRUE]
    /\ volume_tablets = [v \in Volumes |-> { VolumeTablet(v) }]
    /\ tablet_data = { VolumeTablet(v) : v \in Volumes }
    /\ min_percentage_of_error_disk \in ErrorPercentages
    /\ is_drop_tables = FALSE
    /\ is_report_disk_state_already = FALSE
    /\ is_report_tablet_already = FALSE
    /\ report_pending = {}
    /\ monitor_pc = "idle"
    /\ rounds = 0
    /\ error_disks = 0
    /\ notified = 0

\* the tablets of the volumes are in the directory
DiskDirectory ==
    /\ tablet_map = { VolumeTablet(v) : v \in Volumes }
    /\ header_lock = [t \in TabletInfos |-> None]

\* the monitor does not run
DiskQuiet ==
    /\ is_used = << >>
    /\ volume_tablets = << >>
    /\ tablet_data = {}
    /\ min_percentage_of_error_disk = 50
    /\ is_drop_tables = FALSE
    /\ is_report_disk_state_already = FALSE
    /\ is_report_tablet_already = FALSE
    /\ report_pending = {}
    /\ monitor_pc = "idle"
    /\ rounds = 0
    /\ error_disks = 0
    /\ notified = 0

Reporters == { "disk_state", "tablet" }

\* start_disk_stat_monitor: health_check() of every store; a store that
\* fails is no longer used.  The monitor runs for ever: rounds and notified
\* count up to MaxRounds and stay there.
HealthCheck ==
    /\ monitor_pc = "idle"
    /\ rounds' = IF rounds < MaxRounds THEN rounds + 1 ELSE rounds
    /\ \E failed \in SUBSET { v \in Volumes : is_used[v] } :
          is_used' = [v \in Volumes |-> is_used[v] /\ v \notin failed]
    /\ monitor_pc' = "delete_tables"
    /\ UNCHANGED << tablet_map, volume_tablets, tablet_data,
                    min_percentage_of_error_disk,
                    is_drop_tables, is_report_disk_state_already,
                    is_report_tablet_already, report_pending, error_disks,
                    notified >>
    /\ UNCHANGED nonDiskVars

\* unused_root_path_num after the loop of _delete_tables_on_unused_root_path:
\* it is initialised to 0 and the loop does not touch it
UnusedRootPathNum(used) == 0

\* total_root_path_num after the loop
TotalRootPathNum == Cardinality(Volumes)

\* _used_disk_not_enough
UsedDiskNotEnough(unused_num, total_num) ==
    \/ total_num = 0
    \/ (unused_num * 100) \div total_num > min_percentage_of_error_disk

\* clear_tablets of no store at all
ClearedTablets_None == {}

\* clear_tablets of every store that is not used
ClearedTablets == UNION { volume_tablets[v] : v \in { u \in Volumes : ~is_used[u] } }

\* TabletManager::drop_tablets_on_error_root_path: the tablets leave the
\* directory, their data stays on the disk
DropTabletsOnErrorRootPath(tablet_info_vec) ==
    [ map  |-> tablet_map \ tablet_info_vec,
      data |-> tablet_data ]

\* _delete_tables_on_unused_root_path, under _store_lock
DeleteTablesOnUnusedRootPath ==
    /\ monitor_pc = "delete_tables"
    /\ volume_tablets' = [v \in Volumes |-> IF is_used[v] THEN volume_tablets[v] ELSE {}]
    /\ error_disks' = UnusedRootPathNum(is_used)
    /\ IF UsedDiskNotEnough(UnusedRootPathNum(is_used), TotalRootPathNum)
       THEN /\ monitor_pc' = "exited"
            /\ UNCHANGED << is_drop_tables, tablet_map, tablet_data >>
       ELSE /\ monitor_pc' = "notify"
            /\ is_drop_tables' = (is_drop_tables \/ ClearedTablets # {})
            /\ tablet_map' = DropTabletsOnErrorRootPath(ClearedTablets).map
            /\ tablet_data' = DropTabletsOnErrorRootPath(ClearedTablets).data
    /\ UNCHANGED << is_used, min_percentage_of_error_disk,
                    is_report_disk_state_already, is_report_tablet_already,
                    report_pending, rounds, notified >>
    /\ UNCHANGED nonDiskVars

\* start_disk_stat_monitor: if (_is_drop_tables) report_notify(true) wakes
\* both reporters
ReportNotify ==
    /\ monitor_pc = "notify"
    /\ IF is_drop_tables
       THEN /\ notified' = IF notified < MaxRounds THEN notified + 1 ELSE notified
            /\ report_pending' = Reporters
            /\ monitor_pc' = "exchange"
       ELSE /\ monitor_pc' = "idle"
            /\ UNCHANGED << notified, report_pending >>
    /\ UNCHANGED << tablet_map, is_used, volume_tablets, tablet_data,
                    min_percentage_of_error_disk, is_drop_tables,
                    is_report_disk_state_already, is_report_tablet_already,
                    rounds, error_disks >>
    /\ UNCHANGED nonDiskVars

\* the flag is cleared when both compare_exchange_strong found true
ClearsDropTables(disk_state_exchanged, tablet_exchanged) ==
    disk_state_exchanged /\ tablet_exchanged

\* start_disk_stat_monitor: the two compare_exchange_strong(true, false) and
\* the reset of _is_drop_tables
NotifyDroppedTables ==
    /\ monitor_pc = "exchange"
    /\ monitor_pc' = "idle"
    /\ is_report_disk_state_already' = FALSE
    /\ is_report_tablet_already' = FALSE
    /\ is_drop_tables' =
          ~ClearsDropTables(is_report_disk_state_already, is_report_tablet_already)
    /\ UNCHANGED << tablet_map, is_used, volume_tablets, tablet_data,
                    min_percentage_of_error_disk, report_pending, rounds,
                    error_disks, notified >>
    /\ UNCHANGED nonDiskVars

\* a reporter thread woken by report_notify has sent its report
ReportDone(which) ==
    /\ monitor_pc # "exited"
    /\ which \in report_pending
    /\ report_pending' = report_pending \ { which }
    /\ IF which = "disk_state"
       THEN /\ is_report_disk_state_already' = TRUE
            /\ UNCHANGED is_report_tablet_already
       ELSE /\ is_report_tablet_already' = TRUE
            /\ UNCHANGED is_report_disk_state_already
    /\ UNCHANGED << tablet_map, is_used, volume_tablets, tablet_data,
                    min_percentage_of_error_disk, is_drop_tables, monitor_pc,
                    rounds, error_disks, notified >>
    /\ UNCHANGED nonDiskVars

DiskNext ==
    \/ HealthCheck
    \/ DeleteTablesOnUnusedRootPath
    \/ ReportNotify
    \/ NotifyDroppedTables
    \/ \E which \in Reporters : ReportDone(which)

\* the monitor has finished the deletion step of a round
RoundDone == rounds > 0 /\ monitor_pc \in { "notify", "exchange", "idle", "exited" }

UnusedVolumes == { v \in Volumes : ~is_used[v] }

\* C15 (the claim as stated): after a disk-health round, if the share of
\* volumes that are not used exceeds the error threshold
\* (unused * 100 / total > min_percentage_of_error_disk) the engine has
\* terminated; at or below the threshold it keeps running.
C15_DiskExhaustionEscalation ==
    RoundDone =>
        IF (Cardinality(UnusedVolumes) * 100) \div Cardinality(Volumes)
               > min_percentage_of_error_disk
        THEN monitor_pc = "exited"
        ELSE monitor_pc # "exited"

\* the tablets of the volumes that are not used
OwnedByUnused(used) == { VolumeTablet(v) : v \in { u \in Volumes : ~used[u] } }

\* the step of a round that ends _delete_tables_on_unused_root_path without
\* terminating the process
RoundKeepsRunning ==
    monitor_pc = "delete_tables" /\ monitor_pc' = "notify"

DroppedNotDeleted ==
    RoundKeepsRunning =>
        /\ tablet_map' \cap OwnedByUnused(is_used') = {}
        /\ tablet_data' = tablet_data
        /\ (tablet_map' # tablet_map => is_drop_tables')

NotifiesWhileRaised ==
    (monitor_pc = "notify" /\ monitor_pc' # "notify" /\ is_drop_tables) =>
        /\ report_pending' = Reporters
        /\ monitor_pc' = "exchange"

\* the flag goes down only in the exchange of a round that finds both
\* reporters' flags set
ClearedOnlyWhenBothReported ==
    (is_drop_tables /\ ~is_drop_tables') =>
        /\ monitor_pc = "exchange"
        /\ is_report_disk_state_already
        /\ is_report_tablet_already

\* the two safety parts of the notification protocol: every round with the
\* flag raised notifies again, and only a round that observes both reports
\* clears the flag
NotificationProtocol == [][NotifiesWhileRaised /\ ClearedOnlyWhenBothReported]_vars

\* both reporters have reported after a notification before the monitor
\* notifies again
BothKeepReporting == [](monitor_pc = "notify" => report_pending = {})

\* C32 (the claim as stated): once _is_drop_tables is raised every round
\* notifies the reporters again until it is cleared, it is cleared only in a
\* round that observes both reporters as having reported, and if both
\* reporters report after each notification the flag is eventually cleared.
C32_OneShotNotification ==
    /\ NotificationProtocol
    /\ BothKeepReporting => (is_drop_tables ~> ~is_drop_tables)

(***************************************************************************)
(* Trash and snapshot sweep                                                *)
(***************************************************************************)
SNAPSHOT_PREFIX == "snapshot"

TRASH_PREFIX == "trash"

SweepDirs == { SNAPSHOT_PREFIX, TRASH_PREFIX }

OLAP_ERR_OS_ERROR == "OLAP_ERR_OS_ERROR"

OLAP_ERR_IO_ERROR == "OLAP_ERR_IO_ERROR"

\* config::snapshot_expire_time_sec, config::trash_file_expire_time_sec and
\* config::disk_capacity_insufficient_percentage
snapshot_expire_time_sec == 1

trash_file_expire_time_sec == 2

disk_capacity_insufficient_percentage == 90

\* What a scanned directory holds.  age is difftime(local_now, mktime(create))
\* of the time in the entry's name; parses: strptime accepts the name;
\* removable: remove_all_dir succeeds on it.
DirEntries ==
    << [age |-> 3,  parses |-> FALSE, removable |-> TRUE],
       [age |-> 0,  parses |-> TRUE,  removable |-> TRUE],
       [age |-> 1,  parses |-> TRUE,  removable |-> TRUE],
       [age |-> 2,  parses |-> TRUE,  removable |-> TRUE],
       [age |-> 3,  parses |-> TRUE,  removable |-> TRUE],
       [age |-> 1,  parses |-> TRUE,  removable |-> FALSE],
       [age |-> -1, parses |-> TRUE,  removable |-> TRUE] >>

Items == 1..Len(DirEntries)

\* DataDirInfo as get_all_data_dir_info hands it out: an unused path has
\* capacity 1 and available 0, a used one its capacity and what
\* _get_path_available_capacity measured
DataDirInfos ==
    { [is_used |-> FALSE, capacity |-> 1, available |-> 0] }
    \cup { [is_used |-> TRUE, capacity |-> 100, available |-> a] : a \in { 5, 10, 50 } }

DirStates == { "ok", "missing", "unreadable" }

ScannedDirs == Volumes \X SweepDirs

TrashFresh ==
    /\ dir_entries = [d \in ScannedDirs |-> Items]
    /\ sweep_pc = "idle"
    /\ sweep_vol = 1
    /\ sweep_dir = SNAPSHOT_PREFIX
    /\ sweep_item = 1
    /\ curr_res = OLAP_SUCCESS
    /\ sweep_res = None
    /\ sweep_usage = 0
    /\ scan_failed = {}
    /\ tablet_sweep_done = FALSE

\* at most one directory is missing or cannot be read
TrashInit ==
    /\ data_dir_infos \in [Volumes -> DataDirInfos]
    /\ \E odd \in ScannedDirs, s \in DirStates :
          dir_state = [d \in ScannedDirs |-> IF d = odd THEN s ELSE "ok"]
    /\ TrashFresh

TrashQuiet ==
    /\ data_dir_infos = << >>
    /\ dir_state = << >>
    /\ dir_entries = << >>
    /\ sweep_pc = "idle"
    /\ sweep_vol = 1
    /\ sweep_dir = SNAPSHOT_PREFIX
    /\ sweep_item = 1
    /\ curr_res = OLAP_SUCCESS
    /\ sweep_res = None
    /\ sweep_usage = 0
    /\ scan_failed = {}
    /\ tablet_sweep_done = FALSE

\* curr_usage > guard_space, with curr_usage = (capacity - available) / capacity
\* and guard_space = percentage / 100
UsageOverGuard(info) ==
    (info.capacity - info.available) * 100
        > disk_capacity_insufficient_percentage * info.capacity

\* curr_usage in percent
CurrUsage(info) == ((info.capacity - info.available) * 100) \div info.capacity

TrashExpire_Fixed(info) == trash_file_expire_time_sec

\* the expire argument of the second _do_sweep
TrashExpire(info) == IF UsageOverGuard(info) THEN 0 ELSE trash_file_expire_time_sec

Expire(v, d) ==
    IF d = SNAPSHOT_PREFIX
        THEN snapshot_expire_time_sec
        ELSE TrashExpire(data_dir_infos[v])

\* the next info of the loop, used or not
NextUsedFrom_Any(v) == IF v \in Volumes THEN v ELSE StoreEnd

\* the next info of the loop that is not skipped for !is_used
NextUsedFrom(v) ==
    IF \E w \in Volumes : w >= v /\ data_dir_infos[w].is_used
        THEN CHOOSE w \in Volumes :
                /\ w >= v /\ data_dir_infos[w].is_used
                /\ \A u \in Volumes : (u >= v /\ data_dir_infos[u].is_used) => w <= u
        ELSE StoreEnd

\* the loop of start_trash_sweep moves to the info at v
SweepVolume(v) ==
    IF v = StoreEnd
        THEN /\ sweep_pc' = "tablets"
             /\ UNCHANGED << sweep_vol, sweep_dir, sweep_usage >>
        ELSE /\ sweep_pc' = "enter_dir"
             /\ sweep_vol' = v
             /\ sweep_dir' = SNAPSHOT_PREFIX
             /\ sweep_usage' = IF sweep_usage > CurrUsage(data_dir_infos[v])
                                  THEN sweep_usage
                                  ELSE CurrUsage(data_dir_infos[v])

BeginTrashSweep ==
    /\ sweep_pc = "idle"
    /\ \E time_ok \in BOOLEAN :
          IF time_ok
              THEN /\ sweep_res' = OLAP_SUCCESS
                   /\ SweepVolume(NextUsedFrom(1))
              ELSE /\ sweep_res' = OLAP_ERR_OS_ERROR
                   /\ sweep_pc' = "returned"
                   /\ UNCHANGED << sweep_vol, sweep_dir, sweep_usage >>
    /\ UNCHANGED << data_dir_infos, dir_state, dir_entries, sweep_item, curr_res,
                    scan_failed, tablet_sweep_done >>
    /\ UNCHANGED nonTrashVars

\* _do_sweep up to the first item
EnterDir ==
    /\ sweep_pc = "enter_dir"
    /\ LET d == << sweep_vol, sweep_dir >> IN
          CASE dir_state[d] = "missing" ->
                  /\ curr_res' = OLAP_SUCCESS
                  /\ sweep_pc' = "leave_dir"
                  /\ UNCHANGED scan_failed
            [] dir_state[d] = "unreadable" ->
                  /\ curr_res' = OLAP_ERR_IO_ERROR
                  /\ sweep_pc' = "leave_dir"
                  /\ scan_failed' = scan_failed \cup { d }
            [] OTHER ->
                  /\ curr_res' = OLAP_SUCCESS
                  /\ sweep_pc' = "scanning"
                  /\ UNCHANGED scan_failed
    /\ sweep_item' = 1
    /\ UNCHANGED << data_dir_infos, dir_state, dir_entries, sweep_vol, sweep_dir,
                    sweep_res, sweep_usage, tablet_sweep_done >>
    /\ UNCHANGED nonTrashVars

\* difftime(local_now, mktime(&local_tm_create)) >= expire
Expired(entry, expire) == entry.age >= expire

\* res after an entry whose name strptime rejects: untouched
AfterStrptimeFailure_Silent(res) == res

\* res after an entry whose name strptime rejects
AfterStrptimeFailure(res) == OLAP_ERR_OS_ERROR

\* one iteration of the loop of _do_sweep
SweepItem ==
    /\ sweep_pc = "scanning"
    /\ sweep_item \in Items
    /\ LET d == << sweep_vol, sweep_dir >>
           entry == DirEntries[sweep_item]
       IN  CASE ~entry.parses ->
                   /\ curr_res' = AfterStrptimeFailure(curr_res)
                   /\ UNCHANGED dir_entries
             [] entry.parses /\ Expired(entry, Expire(sweep_vol, sweep_dir))
                    /\ ~entry.removable ->
                   /\ curr_res' = OLAP_ERR_OS_ERROR
                   /\ UNCHANGED dir_entries
             [] entry.parses /\ Expired(entry, Expire(sweep_vol, sweep_dir))
                    /\ entry.removable ->
                   /\ dir_entries' = [dir_entries EXCEPT ![d] = @ \ { sweep_item }]
                   /\ UNCHANGED curr_res
             [] OTHER -> UNCHANGED << curr_res, dir_entries >>
    /\ sweep_item' = sweep_item + 1
    /\ UNCHANGED << data_dir_infos, dir_state, sweep_pc, sweep_vol, sweep_dir,
                    sweep_res, sweep_usage, scan_failed, tablet_sweep_done >>
    /\ UNCHANGED nonTrashVars

\* _do_sweep returns; start_trash_sweep records a failure and moves on
LeaveDir ==
    /\ \/ sweep_pc = "leave_dir"
       \/ sweep_pc = "scanning" /\ sweep_item \notin Items
    /\ sweep_res' = IF curr_res # OLAP_SUCCESS THEN curr_res ELSE sweep_res
    /\ IF sweep_dir = SNAPSHOT_PREFIX
          THEN /\ sweep_dir' = TRASH_PREFIX
               /\ sweep_pc' = "enter_dir"
               /\ UNCHANGED << sweep_vol, sweep_usage >>
          ELSE SweepVolume(NextUsedFrom(StoreAfter(sweep_vol)))
    /\ UNCHANGED << data_dir_infos, dir_state, dir_entries, sweep_item, curr_res,
                    scan_failed, tablet_sweep_done >>
    /\ UNCHANGED nonTrashVars

\* TabletManager::start_trash_sweep, then return res
SweepTablets ==
    /\ sweep_pc = "tablets"
    /\ tablet_sweep_done' = TRUE
    /\ sweep_pc' = "returned"
    /\ UNCHANGED << data_dir_infos, dir_state, dir_entries, sweep_vol, sweep_dir,
                    sweep_item, curr_res, sweep_res, sweep_usage, scan_failed >>
    /\ UNCHANGED nonTrashVars

TrashNext ==
    \/ BeginTrashSweep
    \/ EnterDir
    \/ SweepItem
    \/ LeaveDir
    \/ SweepTablets

\* the sweep went through every used volume
SweepCompleted == sweep_pc = "returned" /\ tablet_sweep_done

\* the scan of directory d ran to its end
Scanned(d) ==
    /\ data_dir_infos[d[1]].is_used
    /\ dir_state[d] = "ok"

Gone(d, i) == i \notin dir_entries[d]

OverGuard(v) == data_dir_infos[v].is_used /\ UsageOverGuard(data_dir_infos[v])

ExpireOf(d) ==
    IF d[2] = SNAPSHOT_PREFIX THEN snapshot_expire_time_sec
    ELSE IF OverGuard(d[1]) THEN 0
    ELSE trash_file_expire_time_sec

\* an entry of d is due and remove_all_dir fails on it
RemovalFails(d) ==
    \E i \in Items :
        /\ DirEntries[i].parses /\ ~DirEntries[i].removable
        /\ DirEntries[i].age >= ExpireOf(d)

\* the entries strptime rejects
Unparsable == { i \in Items : ~DirEntries[i].parses }

\* the sweep has returned and nothing but unparsable names went wrong: every
\* directory of a used volume was missing or readable, and no removal failed
OnlyUnparsableNames ==
    /\ SweepCompleted
    /\ \E d \in ScannedDirs : Scanned(d)
    /\ \A d \in ScannedDirs :
          data_dir_infos[d[1]].is_used =>
              /\ dir_state[d] # "unreadable"
              /\ Scanned(d) => ~RemovalFails(d)

\* C33 as worded: an entry whose name does not parse is not deleted, does
\* not stop the sweep, and is not reported as a failure of the sweep.
C33_AsStated ==
    /\ \A d \in ScannedDirs : \A i \in Unparsable : ~Gone(d, i)
    /\ OnlyUnparsableNames => sweep_res = OLAP_SUCCESS

\* C33: an entry whose name does not parse as a time is never deleted and
\* does not stop the sweep: the entries after it in the directory are still
\* examined and the due ones removed.  It makes _do_sweep return
\* OLAP_ERR_OS_ERROR, which start_trash_sweep hands on as its own status
\* unless a later directory fails with another error.
C33_UnparsableEntriesSkipped ==
    /\ \A d \in ScannedDirs : \A i \in Unparsable : ~Gone(d, i)
    /\ SweepCompleted =>
          \A d \in ScannedDirs : \A i, j \in Items :
              (/\ Scanned(d) /\ i \in Unparsable /\ j > i
               /\ DirEntries[j].parses /\ DirEntries[j].removable
               /\ DirEntries[j].age >= ExpireOf(d))
                  => Gone(d, j)
    /\ (sweep_pc = "scanning" /\ \E i \in Unparsable : sweep_item > i) =>
          curr_res = OLAP_ERR_OS_ERROR
    /\ (SweepCompleted /\ \E d \in ScannedDirs : Scanned(d)) =>
          sweep_res \in { OLAP_ERR_OS_ERROR, OLAP_ERR_IO_ERROR }
    /\ OnlyUnparsableNames => sweep_res = OLAP_ERR_OS_ERROR

\* a sweep has returned whose only difficulty was an unparsable name in a
\* trash directory: the entry is there, a due entry after it is gone
C33_Witness ==
    /\ OnlyUnparsableNames
    /\ \E v \in Volumes :
          /\ Scanned(<< v, TRASH_PREFIX >>)
          /\ \E i \in Unparsable, j \in Items :
                /\ j > i
                /\ ~Gone(<< v, TRASH_PREFIX >>, i)
                /\ Gone(<< v, TRASH_PREFIX >>, j)

\* _do_sweep went through directory d: a readable one lost its due entries,
\* an unreadable one raised its exception, a missing one has nothing to lose
Swept(d) ==
    CASE dir_state[d] = "unreadable" -> d \in scan_failed
      [] dir_state[d] = "missing"    -> TRUE
      [] OTHER ->
            \A i \in Items :
                (/\ DirEntries[i].parses /\ DirEntries[i].removable
                 /\ DirEntries[i].age >= ExpireOf(d)) => Gone(d, i)

\* C34: a call of start_trash_sweep that reaches its loop sweeps the snapshot
\* and the trash directory of every used volume, whatever the sweeps of the
\* other directories returned; a failure shows only in the status the call
\* returns; no entry under a volume that is not used is ever removed.
C34_SweepFailuresAreIsolated ==
    /\ SweepCompleted =>
          /\ \A d \in ScannedDirs : data_dir_infos[d[1]].is_used => Swept(d)
          /\ scan_failed # {} => sweep_res # OLAP_SUCCESS
    /\ \A d \in ScannedDirs :
          ~data_dir_infos[d[1]].is_used =>
              /\ dir_entries[d] = Items
              /\ d \notin scan_failed

\* the scan of the first used volume's snapshot directory threw, and the
\* call still swept that volume's trash and a later volume, passing over a
\* volume that is not used
C34_Witness ==
    /\ SweepCompleted
    /\ sweep_res # OLAP_SUCCESS
    /\ \E u, v, w \in Volumes :
          /\ u < w
          /\ << u, SNAPSHOT_PREFIX >> \in scan_failed
          /\ dir_entries[<< u, TRASH_PREFIX >>] # Items
          /\ dir_entries[<< w, SNAPSHOT_PREFIX >>] # Items
          /\ dir_entries[<< w, TRASH_PREFIX >>] # Items
          /\ ~data_dir_infos[v].is_used
          /\ dir_entries[<< v, TRASH_PREFIX >>] = Items

(***************************************************************************)
(* clear_transaction_task                                                  *)
(***************************************************************************)
ClearTablets == { <<3, 2>>, <<7, 1>> }

ClearPartitionIds == { 10, 11 }

ClearTxnIds == { 100, 101 }

TxnRecords == ClearPartitionIds \X ClearTxnIds \X ClearTablets

\* the vectors of partition ids a caller may pass, repetitions included
PartitionIdVectors ==
    UNION { [1..n -> ClearPartitionIds] : n \in 0..MaxPartitionIds }

NoClear == [txn |-> 0, partitions |-> << >>, before |-> {}]

ClearInit ==
    /\ clear_txn_map \in SUBSET TxnRecords
    /\ clear_tablet_map \in SUBSET ClearTablets
    /\ clear_last = NoClear

ClearQuiet ==
    /\ clear_txn_map = {}
    /\ clear_tablet_map = {}
    /\ clear_last = << >>

\* TxnManager::get_txn_related_tablets: the tablets registered under
\* (partition_id, transaction_id)
GetTxnRelatedTablets(records, transaction_id, partition_id) ==
    { x[3] : x \in { y \in records : y[1] = partition_id /\ y[2] = transaction_id } }

\* TxnManager::delete_txn: the record of the tablet under
\* (partition_id, transaction_id) is removed, with or without a meta store
DeleteTxn(records, meta, partition_id, transaction_id, tablet) ==
    records \ { << partition_id, transaction_id, tablet >> }

\* meta of the tablet's data dir, nullptr when get_tablet finds no tablet
MetaOf(tablet) == IF tablet \in clear_tablet_map THEN "meta" ELSE None

\* delete_txn is called for tablets of the directory only
CallsDeleteTxn_ForKnownTablets(tablet) == tablet \in clear_tablet_map

\* delete_txn is called for every related tablet, found or not
CallsDeleteTxn(tablet) == TRUE

\* the inner loop: delete_txn for each of the related tablets
RECURSIVE DeleteEach(_, _, _, _)
DeleteEach(records, tablets, partition_id, transaction_id) ==
    IF tablets = {} THEN records
    ELSE LET t == CHOOSE x \in tablets : \A y \in tablets : TabletInfoLess(x, y) \/ x = y
         IN  DeleteEach(IF CallsDeleteTxn(t)
                            THEN DeleteTxn(records, MetaOf(t), partition_id,
                                           transaction_id, t)
                            ELSE records,
                        tablets \ { t }, partition_id, transaction_id)

\* the outer loop over partition_ids, from position i on
RECURSIVE ClearPartitions(_, _, _, _)
ClearPartitions(records, transaction_id, partition_ids, i) ==
    IF i > Len(partition_ids) THEN records
    ELSE ClearPartitions(
            DeleteEach(records,
                       GetTxnRelatedTablets(records, transaction_id, partition_ids[i]),
                       partition_ids[i], transaction_id),
            transaction_id, partition_ids, i + 1)

\* clear_transaction_task(transaction_id, partition_ids)
ClearTransactionTask(transaction_id, partition_ids) ==
    /\ clear_txn_map' = ClearPartitions(clear_txn_map, transaction_id, partition_ids, 1)
    /\ clear_last' = [txn |-> transaction_id, partitions |-> partition_ids,
                      before |-> clear_txn_map]
    /\ UNCHANGED clear_tablet_map
    /\ UNCHANGED nonClearVars

ClearNext ==
    \E transaction_id \in ClearTxnIds, partition_ids \in PartitionIdVectors :
        ClearTransactionTask(transaction_id, partition_ids)

\* the records the latest call was to remove
Listed(x) ==
    /\ x[2] = clear_last.txn
    /\ \E i \in 1..Len(clear_last.partitions) : clear_last.partitions[i] = x[1]

\* C35: when clear_transaction_task(txn_id, partitions) has returned, no
\* tablet is registered under (partition_id, txn_id) for any listed
\* partition, whether or not the tablet is still in the directory, and the
\* records of other transactions and of partitions not listed are as before.
C35_ClearRemovesListedRecords ==
    clear_last # NoClear =>
        /\ \A x \in clear_txn_map : ~Listed(x)
        /\ clear_txn_map = { x \in clear_last.before : ~Listed(x) }

\* a call removed the record of a tablet that is not in the directory and
\* left a record of another transaction and one of an unlisted partition
C35_Witness ==
    /\ clear_last # NoClear
    /\ \E x \in clear_last.before \ clear_txn_map : x[3] \notin clear_tablet_map
    /\ \E x \in clear_last.before \ clear_txn_map : x[3] \in clear_tablet_map
    /\ \E x \in clear_txn_map : x[2] # clear_last.txn
    /\ \E x \in clear_txn_map : x[2] = clear_last.txn

(***************************************************************************)
(* set_store_used_flag and _update_storage_medium_type_count               *)
(***************************************************************************)
\* threads calling set_store_used_flag
FlagCallers == { "caller1", "caller2" }

\* the disk-health monitor, which calls _update_storage_medium_type_count
\* on its own
FlagMonitor == "monitor"

\* storage_medium() of a store
StorageMedium(v) == IF v = 1 THEN "SSD" ELSE "HDD"

NoCall == [pc |-> "idle", path |-> 0, is_used |-> FALSE]

\* available_storage_medium_types.size() after the loop over _store_map
AvailableStorageMediumTypeCount(flags) ==
    Cardinality({ StorageMedium(v) : v \in { u \in Volumes : flags[u] } })

\* after open(): every store of the map is in use and the count was taken
FlagInit ==
    /\ store_lock = None
    /\ flag_call = [th \in FlagCallers |-> NoCall]
    /\ store_flags = [v \in Volumes |-> TRUE]
    /\ medium_type_count = AvailableStorageMediumTypeCount(store_flags)

FlagQuiet ==
    /\ store_lock = None
    /\ flag_call = << >>
    /\ store_flags = << >>
    /\ medium_type_count = 0

\* set_store_used_flag(path, is_used) is called for a store of the map, by
\* a thread that is not inside a call
CallSetStoreUsedFlag(th, path, used) ==
    /\ flag_call[th].pc \in { "idle", "thrown" }
    /\ flag_call' = [flag_call EXCEPT ![th] =
                        [pc |-> "lock", path |-> path, is_used |-> used]]
    /\ UNCHANGED << store_lock, store_flags, medium_type_count >>
    /\ UNCHANGED nonFlagVars

\* std::lock_guard<std::mutex> l(_store_lock); find; set_is_used(is_used)
LockAndSetIsUsed(th) ==
    /\ flag_call[th].pc = "lock"
    /\ store_lock = None
    /\ store_lock' = th
    /\ store_flags' = [store_flags EXCEPT ![flag_call[th].path] = flag_call[th].is_used]
    /\ flag_call' = [flag_call EXCEPT ![th].pc = "recount"]
    /\ UNCHANGED medium_type_count
    /\ UNCHANGED nonFlagVars

\* whether the lock_guard of _update_storage_medium_type_count gets the mutex
RecountLockGranted(owner, th) == owner = None

\* _update_storage_medium_type_count(): the count is recomputed under the
\* mutex.  Called at the end of set_store_used_flag, which then returns and
\* releases its own guard, and by start_disk_stat_monitor, which does not
\* hold the mutex.
UpdateStorageMediumTypeCount(th) ==
    /\ th \in FlagCallers => flag_call[th].pc = "recount"
    /\ RecountLockGranted(store_lock, th)
    /\ medium_type_count' = AvailableStorageMediumTypeCount(store_flags)
    /\ store_lock' = None
    /\ flag_call' = IF th \in FlagCallers
                    THEN [flag_call EXCEPT ![th].pc = "returned"]
                    ELSE flag_call
    /\ UNCHANGED store_flags
    /\ UNCHANGED nonFlagVars

\* locking a std::mutex the thread already owns is undefined: besides
\* waiting for ever on itself, lock() may throw; the exception leaves
\* set_store_used_flag, whose guard releases the mutex
RecountLockThrows(th) ==
    /\ flag_call[th].pc = "recount"
    /\ store_lock = th
    /\ store_lock' = None
    /\ flag_call' = [flag_call EXCEPT ![th].pc = "thrown"]
    /\ UNCHANGED << store_flags, medium_type_count >>
    /\ UNCHANGED nonFlagVars

FlagNext ==
    \/ \E th \in FlagCallers, path \in Volumes, used \in BOOLEAN :
          CallSetStoreUsedFlag(th, path, used)
    \/ \E th \in FlagCallers : LockAndSetIsUsed(th)
    \/ \E th \in FlagCallers \cup { FlagMonitor } : UpdateStorageMediumTypeCount(th)
    \/ \E th \in FlagCallers : RecountLockThrows(th)

\* the thread asks for _store_lock while it holds it
WaitsOnOwnStoreLock(th) ==
    flag_call[th].pc = "recount" /\ store_lock = th

\* C39 (the claim as stated): set_store_used_flag on an existing volume
\* never waits for _store_lock while holding it, and ends by returning with
\* the volume's flag equal to is_used and the medium count recomputed.
C39_SetFlagTerminates ==
    \A th \in FlagCallers :
        /\ ~WaitsOnOwnStoreLock(th)
        /\ flag_call[th].pc # "thrown"
        /\ flag_call[th].pc = "returned" =>
              medium_type_count = AvailableStorageMediumTypeCount(store_flags)

(***************************************************************************)
(* The locks of execute_task, _find_best_tablet_to_compaction and          *)
(* start_disk_stat_monitor                                                 *)
(***************************************************************************)
Executor == "executor"

Selector == "selector"

Monitor == "monitor"

DirectoryWriter == "writer"

LockThreads == { Executor, Selector, Monitor, DirectoryWriter }

\* the related tablets of the executor's task, sorted; the selector meets
\* the same tablets in its scan
LockTablets == << <<3, 2>>, <<7, 1>> >>

LockInit ==
    /\ lock_pc = [th \in LockThreads |-> "idle"]
    /\ tablet_map_lock = [readers |-> {}, waiting |-> {}]
    /\ held_header_lock = [i \in DOMAIN LockTablets |-> None]
    /\ prefer_write \in BOOLEAN

LockQuiet ==
    /\ lock_pc = << >>
    /\ tablet_map_lock = << >>
    /\ held_header_lock = << >>
    /\ prefer_write = FALSE

\* ReadLock on _tablet_map_lock: no writer holds it (writers take and leave
\* it in one step here), and no writer waits when the lock prefers writers
TabletMapReadGranted == prefer_write => tablet_map_lock.waiting = {}

\* WriteLock on _tablet_map_lock: nobody reads
TabletMapWriteGranted == tablet_map_lock.readers = {}

\* ReadLock / obtain_header_wrlock on a tablet header: nobody writes
HeaderLockGranted(i) == held_header_lock[i] = None

\* execute_task is called with a task of two related tablets
ExecutorBegin ==
    /\ lock_pc[Executor] = "idle"
    /\ lock_pc' = [lock_pc EXCEPT ![Executor] = "get_tablet_1"]
    /\ UNCHANGED << tablet_map_lock, held_header_lock, prefer_write, store_lock >>
    /\ UNCHANGED nonLockVars

\* TabletManager::get_tablet for the i-th entry: the directory is read under
\* its read-lock, which is released before get_tablet returns
ExecutorGetTablet(i) ==
    /\ lock_pc[Executor] = IF i = 1 THEN "get_tablet_1" ELSE "get_tablet_2"
    /\ TabletMapReadGranted
    /\ lock_pc' = [lock_pc EXCEPT ![Executor] =
                      IF i = 1 THEN "wrlock_1" ELSE "wrlock_2"]
    /\ UNCHANGED << tablet_map_lock, held_header_lock, prefer_write, store_lock >>
    /\ UNCHANGED nonLockVars

\* tablet->obtain_header_wrlock() for the i-th entry
ExecutorObtainHeaderWrlock(i) ==
    /\ lock_pc[Executor] = IF i = 1 THEN "wrlock_1" ELSE "wrlock_2"
    /\ HeaderLockGranted(i)
    /\ held_header_lock' = [held_header_lock EXCEPT ![i] = Executor]
    /\ lock_pc' = [lock_pc EXCEPT ![Executor] =
                      IF i = 1 THEN "get_tablet_2" ELSE "prepare"]
    /\ UNCHANGED << tablet_map_lock, prefer_write, store_lock >>
    /\ UNCHANGED nonLockVars

\* task->prepare() and the release loop over related_tablets
ExecutorPrepareAndRelease ==
    /\ lock_pc[Executor] = "prepare"
    /\ held_header_lock' = [i \in DOMAIN LockTablets |->
                              IF held_header_lock[i] = Executor
                              THEN None ELSE held_header_lock[i]]
    /\ lock_pc' = [lock_pc EXCEPT ![Executor] = "idle"]
    /\ UNCHANGED << tablet_map_lock, prefer_write, store_lock >>
    /\ UNCHANGED nonLockVars

\* _find_best_tablet_to_compaction is called
SelectorBegin ==
    /\ lock_pc[Selector] = "idle"
    /\ lock_pc' = [lock_pc EXCEPT ![Selector] = "rdlock"]
    /\ UNCHANGED << tablet_map_lock, held_header_lock, prefer_write, store_lock >>
    /\ UNCHANGED nonLockVars

\* ReadLock tablet_map_rdlock(&_tablet_map_lock)
SelectorLockTabletMap ==
    /\ lock_pc[Selector] = "rdlock"
    /\ TabletMapReadGranted
    /\ tablet_map_lock' = [tablet_map_lock EXCEPT !.readers = @ \cup { Selector }]
    /\ lock_pc' = [lock_pc EXCEPT ![Selector] = "score_1"]
    /\ UNCHANGED << held_header_lock, prefer_write, store_lock >>
    /\ UNCHANGED nonLockVars

\* ReadLock rdlock(table_ptr->get_header_lock_ptr()) for the i-th tablet of
\* the scan; the score is read and the header lock released at the end of
\* the iteration
SelectorScore(i) ==
    /\ lock_pc[Selector] = IF i = 1 THEN "score_1" ELSE "score_2"
    /\ HeaderLockGranted(i)
    /\ lock_pc' = [lock_pc EXCEPT ![Selector] =
                      IF i = 1 THEN "score_2" ELSE "return"]
    /\ UNCHANGED << tablet_map_lock, held_header_lock, prefer_write, store_lock >>
    /\ UNCHANGED nonLockVars

\* return best_tablet: tablet_map_rdlock goes out of scope
SelectorReturn ==
    /\ lock_pc[Selector] = "return"
    /\ tablet_map_lock' = [tablet_map_lock EXCEPT !.readers = @ \ { Selector }]
    /\ lock_pc' = [lock_pc EXCEPT ![Selector] = "idle"]
    /\ UNCHANGED << held_header_lock, prefer_write, store_lock >>
    /\ UNCHANGED nonLockVars

\* start_disk_stat_monitor enters its loop over _store_map, which calls
\* health_check() on every store; no lock is taken
MonitorHealthCheck ==
    /\ lock_pc[Monitor] = "idle"
    /\ lock_pc' = [lock_pc EXCEPT ![Monitor] = "health_check"]
    /\ UNCHANGED << tablet_map_lock, held_header_lock, prefer_write, store_lock >>
    /\ UNCHANGED nonLockVars

\* the loop ends; _update_storage_medium_type_count() takes _store_lock,
\* iterates and releases it
MonitorUpdateCount ==
    /\ lock_pc[Monitor] = "health_check"
    /\ store_lock = None
    /\ lock_pc' = [lock_pc EXCEPT ![Monitor] = "delete_tables"]
    /\ UNCHANGED << tablet_map_lock, held_header_lock, prefer_write, store_lock >>
    /\ UNCHANGED nonLockVars

\* _delete_tables_on_unused_root_path: lock_guard on _store_lock, then the
\* loop over _store_map that collects the tablets of unused stores
MonitorLockStores ==
    /\ lock_pc[Monitor] = "delete_tables"
    /\ store_lock = None
    /\ store_lock' = Monitor
    /\ lock_pc' = [lock_pc EXCEPT ![Monitor] = "clear_tablets"]
    /\ UNCHANGED << tablet_map_lock, held_header_lock, prefer_write >>
    /\ UNCHANGED nonLockVars

\* drop_tablets_on_error_root_path asks for the directory's write-lock,
\* _store_lock still held
MonitorRequestDrop ==
    /\ lock_pc[Monitor] = "clear_tablets"
    /\ tablet_map_lock' = [tablet_map_lock EXCEPT !.waiting = @ \cup { Monitor }]
    /\ lock_pc' = [lock_pc EXCEPT ![Monitor] = "drop_tablets"]
    /\ UNCHANGED << held_header_lock, prefer_write, store_lock >>
    /\ UNCHANGED nonLockVars

\* the write-lock is granted, the tablets are removed from the directory,
\* and both locks are released on the way out
MonitorDropAndReturn ==
    /\ lock_pc[Monitor] = "drop_tablets"
    /\ TabletMapWriteGranted
    /\ tablet_map_lock' = [tablet_map_lock EXCEPT !.waiting = @ \ { Monitor }]
    /\ store_lock' = None
    /\ lock_pc' = [lock_pc EXCEPT ![Monitor] = "idle"]
    /\ UNCHANGED << held_header_lock, prefer_write >>
    /\ UNCHANGED nonLockVars

\* another thread asks for the directory's write-lock (a tablet is created
\* or dropped)
WriterRequest ==
    /\ lock_pc[DirectoryWriter] = "idle"
    /\ tablet_map_lock' = [tablet_map_lock EXCEPT !.waiting = @ \cup { DirectoryWriter }]
    /\ lock_pc' = [lock_pc EXCEPT ![DirectoryWriter] = "wrlock"]
    /\ UNCHANGED << held_header_lock, prefer_write, store_lock >>
    /\ UNCHANGED nonLockVars

\* its write-lock is granted, the directory changed and the lock released
WriterDone ==
    /\ lock_pc[DirectoryWriter] = "wrlock"
    /\ TabletMapWriteGranted
    /\ tablet_map_lock' = [tablet_map_lock EXCEPT !.waiting = @ \ { DirectoryWriter }]
    /\ lock_pc' = [lock_pc EXCEPT ![DirectoryWriter] = "idle"]
    /\ UNCHANGED << held_header_lock, prefer_write, store_lock >>
    /\ UNCHANGED nonLockVars

LockNext ==
    \/ ExecutorBegin
    \/ \E i \in DOMAIN LockTablets : ExecutorGetTablet(i)
    \/ \E i \in DOMAIN LockTablets : ExecutorObtainHeaderWrlock(i)
    \/ ExecutorPrepareAndRelease
    \/ SelectorBegin
    \/ SelectorLockTabletMap
    \/ \E i \in DOMAIN LockTablets : SelectorScore(i)
    \/ SelectorReturn
    \/ MonitorHealthCheck
    \/ MonitorUpdateCount
    \/ MonitorLockStores
    \/ MonitorRequestDrop
    \/ MonitorDropAndReturn
    \/ WriterRequest
    \/ WriterDone

\* the thread is inside a loop over _store_map
IteratesStoreMap(th) ==
    th = Monitor /\ lock_pc[th] \in { "health_check", "clear_tablets" }

\* every loop over _store_map runs with _store_lock held by the looping thread
StoreMapIteratedUnderLock ==
    \A th \in LockThreads : IteratesStoreMap(th) => store_lock = th

\* the tablet whose header lock the thread asks for, or 0
WantsHeaderLock(th) ==
    CASE th = Executor /\ lock_pc[th] = "wrlock_1" -> 1
      [] th = Executor /\ lock_pc[th] = "wrlock_2" -> 2
      [] th = Selector /\ lock_pc[th] = "score_1" -> 1
      [] th = Selector /\ lock_pc[th] = "score_2" -> 2
      [] OTHER -> 0

WantsTabletMapRead(th) ==
    \/ th = Executor /\ lock_pc[th] \in { "get_tablet_1", "get_tablet_2" }
    \/ th = Selector /\ lock_pc[th] = "rdlock"

\* thread a cannot go on before thread b lets go of, or is given, a lock
WaitsFor(a, b) ==
    \/ /\ WantsHeaderLock(a) # 0
       /\ held_header_lock[WantsHeaderLock(a)] = b
    \/ /\ WantsTabletMapRead(a)
       /\ ~TabletMapReadGranted
       /\ b \in tablet_map_lock.waiting
    \/ /\ a \in tablet_map_lock.waiting
       /\ b \in tablet_map_lock.readers
    \/ /\ a = Monitor /\ lock_pc[a] \in { "health_check", "delete_tables" }
       /\ store_lock = b

\* a set of threads each of which waits for another one of the set
LockWaitCycle(S) ==
    S # {} /\ \A a \in S : \E b \in S : WaitsFor(a, b)

NoLockWaitCycle == \A S \in SUBSET LockThreads : ~LockWaitCycle(S)

\* C40 (the claim as stated): every loop over the volume map, the
\* health-check loop of start_disk_stat_monitor included, runs with the
\* volume-map mutex held, and no cycle of lock waits is reachable among the
\* task executor, the compaction selector, the disk monitor and a pending
\* directory writer.
C40_LockDisciplineAndNoDeadlock ==
    StoreMapIteratedUnderLock /\ NoLockWaitCycle

(***************************************************************************)
(* Specifications: one per subsystem, the others at rest                   *)
(***************************************************************************)
SpecTaskInit ==
    /\ TaskInit /\ CompactionQuiet /\ GCQuiet /\ LoadQuiet /\ OpenQuiet
    /\ DiskQuiet /\ TrashQuiet /\ FindQuiet /\ PerformQuiet /\ RegistryQuiet /\ ConvertQuiet /\ ClearQuiet /\ FlagQuiet /\ LockQuiet

SpecTask == SpecTaskInit /\ [][TaskNext]_vars

SpecCompactionInit ==
    /\ CompactionInit /\ CompactionDirectory /\ TaskQuiet /\ GCQuiet
    /\ LoadQuiet /\ OpenQuiet /\ DiskQuiet /\ TrashQuiet /\ FindQuiet /\ PerformQuiet /\ RegistryQuiet /\ ConvertQuiet /\ ClearQuiet /\ FlagQuiet /\ LockQuiet

SpecCompaction == SpecCompactionInit /\ [][CompactionNext]_vars

SpecGCInit ==
    /\ GCInit /\ DirectoryQuiet /\ TaskQuiet /\ CompactionQuiet /\ LoadQuiet
    /\ OpenQuiet /\ DiskQuiet /\ TrashQuiet /\ FindQuiet /\ PerformQuiet /\ RegistryQuiet /\ ConvertQuiet /\ ClearQuiet /\ FlagQuiet /\ LockQuiet

SpecGC == SpecGCInit /\ [][GCNext]_vars

SpecLoadInit ==
    /\ LoadInit /\ DirectoryQuiet /\ TaskQuiet /\ CompactionQuiet /\ GCQuiet
    /\ OpenQuiet /\ DiskQuiet /\ TrashQuiet /\ FindQuiet /\ PerformQuiet /\ RegistryQuiet /\ ConvertQuiet /\ ClearQuiet /\ FlagQuiet /\ LockQuiet

SpecLoad == SpecLoadInit /\ [][LoadNext]_vars

SpecOpenInit ==
    /\ OpenInit /\ DirectoryQuiet /\ TaskQuiet /\ CompactionQuiet /\ GCQuiet
    /\ LoadQuiet /\ DiskQuiet /\ TrashQuiet /\ FindQuiet /\ PerformQuiet /\ RegistryQuiet /\ ConvertQuiet /\ ClearQuiet /\ FlagQuiet /\ LockQuiet

SpecOpen == SpecOpenInit /\ [][OpenNext]_vars

SpecDiskInit ==
    /\ DiskInit /\ DiskDirectory /\ TaskQuiet /\ CompactionQuiet /\ GCQuiet
    /\ LoadQuiet /\ OpenQuiet /\ TrashQuiet /\ FindQuiet /\ PerformQuiet /\ RegistryQuiet /\ ConvertQuiet /\ ClearQuiet /\ FlagQuiet /\ LockQuiet

SpecDisk == SpecDiskInit /\ [][DiskNext]_vars

\* the monitor thread and the two reporter threads keep running
DiskFairness ==
    /\ WF_vars(HealthCheck)
    /\ WF_vars(DeleteTablesOnUnusedRootPath)
    /\ WF_vars(ReportNotify)
    /\ WF_vars(NotifyDroppedTables)
    /\ \A which \in Reporters : WF_vars(ReportDone(which))

SpecDiskLive == SpecDiskInit /\ [][DiskNext]_vars /\ DiskFairness

SpecTrashInit ==
    /\ TrashInit /\ DirectoryQuiet /\ TaskQuiet /\ CompactionQuiet /\ GCQuiet
    /\ LoadQuiet /\ OpenQuiet /\ DiskQuiet /\ FindQuiet /\ PerformQuiet /\ RegistryQuiet /\ ConvertQuiet /\ ClearQuiet /\ FlagQuiet /\ LockQuiet

SpecTrash == SpecTrashInit /\ [][TrashNext]_vars

SpecFindBestInit ==
    /\ FindInit /\ FindDirectory /\ TaskQuiet /\ CompactionQuiet /\ GCQuiet
    /\ LoadQuiet /\ OpenQuiet /\ DiskQuiet /\ TrashQuiet /\ PerformQuiet /\ RegistryQuiet /\ ConvertQuiet /\ ClearQuiet /\ FlagQuiet /\ LockQuiet

SpecFindBest == SpecFindBestInit /\ [][FindNext]_vars

SpecPerformInit ==
    /\ PerformInit /\ DirectoryQuiet /\ TaskQuiet /\ CompactionQuiet /\ GCQuiet
    /\ LoadQuiet /\ OpenQuiet /\ DiskQuiet /\ TrashQuiet /\ FindQuiet /\ RegistryQuiet /\ ConvertQuiet /\ ClearQuiet /\ FlagQuiet /\ LockQuiet

SpecPerform == SpecPerformInit /\ [][PerformNext]_vars

SpecRegistryInit ==
    /\ RegistryInit /\ DirectoryQuiet /\ TaskQuiet /\ CompactionQuiet /\ GCQuiet
    /\ LoadQuiet /\ OpenQuiet /\ DiskQuiet /\ TrashQuiet /\ FindQuiet
    /\ PerformQuiet /\ ConvertQuiet /\ ClearQuiet /\ FlagQuiet /\ LockQuiet

SpecRegistry == SpecRegistryInit /\ [][RegistryNext]_vars

SpecConvertInit ==
    /\ ConvertInit /\ DirectoryQuiet /\ TaskQuiet /\ CompactionQuiet /\ GCQuiet
    /\ LoadQuiet /\ OpenQuiet /\ DiskQuiet /\ TrashQuiet /\ FindQuiet
    /\ PerformQuiet /\ RegistryQuiet /\ ClearQuiet /\ FlagQuiet /\ LockQuiet

SpecConvert == SpecConvertInit /\ [][ConvertNext]_vars

SpecClearInit ==
    /\ ClearInit /\ DirectoryQuiet /\ TaskQuiet /\ CompactionQuiet /\ GCQuiet
    /\ LoadQuiet /\ OpenQuiet /\ DiskQuiet /\ TrashQuiet /\ FindQuiet
    /\ PerformQuiet /\ RegistryQuiet /\ ConvertQuiet /\ FlagQuiet /\ LockQuiet

SpecClear == SpecClearInit /\ [][ClearNext]_vars

SpecFlagInit ==
    /\ FlagInit /\ DirectoryQuiet /\ TaskQuiet /\ CompactionQuiet /\ GCQuiet
    /\ LoadQuiet /\ OpenQuiet /\ DiskQuiet /\ TrashQuiet /\ FindQuiet
    /\ PerformQuiet /\ RegistryQuiet /\ ConvertQuiet /\ ClearQuiet /\ LockQuiet

SpecFlag == SpecFlagInit /\ [][FlagNext]_vars


SpecLockInit ==
    /\ LockInit /\ DirectoryQuiet /\ TaskQuiet /\ CompactionQuiet /\ GCQuiet
    /\ LoadQuiet /\ OpenQuiet /\ DiskQuiet /\ TrashQuiet /\ FindQuiet
    /\ PerformQuiet /\ RegistryQuiet /\ ConvertQuiet /\ ClearQuiet /\ FlagQuiet

SpecLock == SpecLockInit /\ [][LockNext]_vars

=============================================================================
